---- MODULE Spec2Model ----
(***************************************************************************)
(* Job queue and flow-coordination engine of windmill: the queue /         *)
(* completed_job table pair, the bulk cancel, the zombie reaper and the    *)
(* suspend/resume coordinator, as implemented in                           *)
(*   backend/windmill-api/src/jobs.rs  and  backend/src/monitor.rs.        *)
(* Store statements run under PostgreSQL READ COMMITTED: one statement is  *)
(* one atomic step, a transaction's writes take row locks that are held    *)
(* until its commit.                                                       *)
(***************************************************************************)
EXTENDS Integers, FiniteSets, Sequences, TLC

VARIABLES
    queue,                 \* table queue: job id -> pending row
    completed_job,         \* table completed_job: job id -> terminal row
    concurrency_key,       \* table concurrency_key: job id -> key
    concurrency_counter,   \* table concurrency_counter: key -> job_uuids
    parallel_monitor_lock, \* table parallel_monitor_lock: set of rows
    resume_job,            \* table resume_job: committed rows
    RESTART_ZOMBIE_JOBS,   \* process-wide setting, fixed at start-up
    reaper,                \* position and locals of the maintenance pass
    calls,                 \* position and locals of each resume request
    row_lock,              \* flow id -> transaction holding its row lock
    enterprise             \* build feature "enterprise", fixed

vars == <<queue, completed_job, concurrency_key, concurrency_counter,
          parallel_monitor_lock, resume_job, RESTART_ZOMBIE_JOBS, reaper,
          calls, row_lock, enterprise>>

----------------------------------------------------------------------------
(* Bounds *)

MaxJobs == 2
MaxFlowLen == 1
MaxCalls == 2
MaxSuspend == 2
MaxResumeId == 1

JobIds == 1 .. MaxJobs
NoJob == 0                      \* SQL NULL in a uuid column
Keys == {"k1"}
NoKey == "null"
Workspaces == {"w1", "w2"}
Calls == 1 .. MaxCalls
ResumeIds == 0 .. MaxResumeId

ScriptKinds == {"script"}
FlowLikeKinds == {"flow", "flowpreview", "flownode", "singlescriptflow"}
FlowReapedKinds == {"flow", "flowpreview", "flownode"}

----------------------------------------------------------------------------
(* Flow status *)

WaitingForPriorSteps == [type |-> "WaitingForPriorSteps", job |-> NoJob, count |-> 0]
InProgress(j) == [type |-> "InProgress", job |-> j, count |-> 0]
Success(j) == [type |-> "Success", job |-> j, count |-> 0]
WaitingForEvents(j, n) == [type |-> "WaitingForEvents", job |-> j, count |-> n]

\* Option<FlowStatus> is a sequence of length 0 (None) or 1 (Some)
NoStatus == <<>>
FreshStatus(n) ==
    <<[step |-> 0, modules |-> [i \in 1 .. n |-> WaitingForPriorSteps],
       approval_conditions |-> <<>>]>>

\* QueuedJob::parse_flow_status
parse_flow_status(row) == row.flow_status

\* modules.get(i), 0-based as in the source; <<>> when out of range
modules_get(s, i) ==
    IF i + 1 \in DOMAIN s.modules THEN <<s.modules[i + 1]>> ELSE <<>>

\* FlowStatus::current_step
current_step(s) == modules_get(s, s.step)

----------------------------------------------------------------------------
(* Rows *)

NewRow(in) ==
    [job_kind |-> in.job_kind, workspace_id |-> in.workspace_id,
     parent_job |-> in.parent_job, schedule_path |-> in.schedule_path,
     same_worker |-> in.same_worker,
     running |-> FALSE, started_at |-> "null", last_ping |-> "null",
     canceled |-> FALSE, canceled_reason |-> "",
     suspend |-> 0, suspend_until |-> "null",
     scheduled_for |-> in.scheduled_for, flow_status |-> in.flow_status]

Terminal(row, success, canceled) ==
    [job_kind |-> row.job_kind, workspace_id |-> row.workspace_id,
     parent_job |-> row.parent_job, success |-> success,
     canceled |-> canceled, canceled_reason |-> row.canceled_reason,
     flow_status |-> row.flow_status, result |-> "set"]

Remove(f, S) == [k \in DOMAIN f \ S |-> f[k]]

\* the id leaves every counter it is registered under (job completion)
ReleaseCounter(cc, j) == [k \in DOMAIN cc |-> cc[k] \ {j}]

Stale(row) == row.last_ping = "stale"

\* inputs of push: scripts with and without a concurrency key, flows,
\* each with and without same_worker
PushInputs ==
    { [job_kind |-> "script", workspace_id |-> "w1", parent_job |-> NoJob,
       schedule_path |-> FALSE, same_worker |-> FALSE, scheduled_for |-> "past",
       flow_status |-> NoStatus, key |-> "k1"],
      [job_kind |-> "script", workspace_id |-> "w1", parent_job |-> NoJob,
       schedule_path |-> FALSE, same_worker |-> TRUE, scheduled_for |-> "past",
       flow_status |-> NoStatus, key |-> NoKey],
      [job_kind |-> "flow", workspace_id |-> "w1", parent_job |-> NoJob,
       schedule_path |-> FALSE, same_worker |-> FALSE, scheduled_for |-> "past",
       flow_status |-> FreshStatus(MaxFlowLen), key |-> NoKey],
      [job_kind |-> "flow", workspace_id |-> "w1", parent_job |-> NoJob,
       schedule_path |-> FALSE, same_worker |-> TRUE, scheduled_for |-> "past",
       flow_status |-> FreshStatus(MaxFlowLen), key |-> NoKey] }

----------------------------------------------------------------------------
(* Worker contract and queue library, consumed by the code above           *)

\* windmill_queue::push: a fresh id gets one pending row and, when the job
\* has a concurrency key, one concurrency_key row, in one transaction
push(j, in) ==
    /\ j \notin DOMAIN queue /\ j \notin DOMAIN completed_job
    /\ queue' = queue @@ (j :> NewRow(in))
    /\ concurrency_key' =
          IF in.key # NoKey THEN concurrency_key @@ (j :> in.key)
                            ELSE concurrency_key
    /\ UNCHANGED <<completed_job, concurrency_counter, parallel_monitor_lock,
                   resume_job, RESTART_ZOMBIE_JOBS, reaper, calls, row_lock,
                   enterprise>>

\* worker pull: claims a pending row that is not running and is due; a row
\* locked by an open transaction is skipped (FOR UPDATE SKIP LOCKED)
claim(j) ==
    /\ j \in DOMAIN queue
    /\ j \notin DOMAIN row_lock
    /\ ~queue[j].running
    /\ queue[j].scheduled_for = "past"
    /\ queue[j].suspend = 0
    /\ queue' = [queue EXCEPT ![j].running = TRUE, ![j].started_at = "set",
                              ![j].last_ping = "fresh",
                              ![j].suspend_until = "null"]
    /\ concurrency_counter' =
          IF j \in DOMAIN concurrency_key
          THEN [concurrency_counter EXCEPT ![concurrency_key[j]] = @ \cup {j}]
          ELSE concurrency_counter
    /\ UNCHANGED <<completed_job, concurrency_key, parallel_monitor_lock,
                   resume_job, RESTART_ZOMBIE_JOBS, reaper, calls, row_lock,
                   enterprise>>

\* worker ping: refreshes last_ping of a running row
ping(j) ==
    /\ j \in DOMAIN queue
    /\ queue[j].running
    /\ queue[j].last_ping = "stale"
    /\ queue' = [queue EXCEPT ![j].last_ping = "fresh"]
    /\ UNCHANGED <<completed_job, concurrency_key, concurrency_counter,
                   parallel_monitor_lock, resume_job, RESTART_ZOMBIE_JOBS,
                   reaper, calls, row_lock, enterprise>>

\* time passes without a ping: now() - last_ping exceeds the timeouts
timeout_elapses(j) ==
    /\ j \in DOMAIN queue
    /\ queue[j].last_ping = "fresh"
    /\ queue' = [queue EXCEPT ![j].last_ping = "stale"]
    /\ UNCHANGED <<completed_job, concurrency_key, concurrency_counter,
                   parallel_monitor_lock, resume_job, RESTART_ZOMBIE_JOBS,
                   reaper, calls, row_lock, enterprise>>

\* tables after the row of j has moved to completed_job
MoveToCompleted(st, j, success, canceled) ==
    [queue |-> Remove(st.queue, {j}),
     completed_job |-> st.completed_job @@
                         (j :> Terminal(st.queue[j], success, canceled)),
     concurrency_counter |-> ReleaseCounter(st.concurrency_counter, j)]

Tables == [queue |-> queue, completed_job |-> completed_job,
           concurrency_counter |-> concurrency_counter]

SetTables(st) ==
    /\ queue' = st.queue
    /\ completed_job' = st.completed_job
    /\ concurrency_counter' = st.concurrency_counter

\* worker complete: moves the running row to the terminal table
complete(j, success) ==
    /\ j \in DOMAIN queue
    /\ queue[j].running
    /\ SetTables(MoveToCompleted(Tables, j,
                                 success /\ ~queue[j].canceled,
                                 queue[j].canceled))
    /\ UNCHANGED <<concurrency_key, parallel_monitor_lock, resume_job,
                   RESTART_ZOMBIE_JOBS, reaper, calls, row_lock, enterprise>>

\* orchestrator step of a running flow: the current module succeeds and the
\* step index advances; the flow's liveness is refreshed
flow_transition(j) ==
    /\ j \in DOMAIN queue
    /\ queue[j].running
    /\ queue[j].flow_status # NoStatus
    /\ LET s == queue[j].flow_status[1] IN
        /\ s.step < Len(s.modules)
        /\ queue' = [queue EXCEPT
              ![j].flow_status =
                  <<[s EXCEPT !.modules[s.step + 1] = Success(NoJob),
                              !.step = s.step + 1]>>,
              ![j].last_ping = "fresh"]
    /\ UNCHANGED <<completed_job, concurrency_key, concurrency_counter,
                   parallel_monitor_lock, resume_job, RESTART_ZOMBIE_JOBS,
                   reaper, calls, row_lock, enterprise>>

\* a parallel branch of a running flow records its liveness row
lock_branch(f, j) ==
    /\ f \in DOMAIN queue
    /\ queue[f].running
    /\ queue[f].flow_status # NoStatus
    /\ f # j
    /\ \A l \in parallel_monitor_lock : l.parent_flow_id # f
    /\ parallel_monitor_lock' = parallel_monitor_lock \cup
          {[parent_flow_id |-> f, job_id |-> j, last_ping |-> "fresh"]}
    /\ UNCHANGED <<queue, completed_job, concurrency_key, concurrency_counter,
                   resume_job, RESTART_ZOMBIE_JOBS, reaper, calls, row_lock,
                   enterprise>>

\* the branch stops refreshing its liveness row
lock_goes_stale(l) ==
    /\ l \in parallel_monitor_lock
    /\ l.last_ping = "fresh"
    /\ parallel_monitor_lock' = (parallel_monitor_lock \ {l}) \cup
          {[l EXCEPT !.last_ping = "stale"]}
    /\ UNCHANGED <<queue, completed_job, concurrency_key, concurrency_counter,
                   resume_job, RESTART_ZOMBIE_JOBS, reaper, calls, row_lock,
                   enterprise>>

\* windmill_queue::cancel_job: the cancellation core.  A job that is absent
\* from the pending table is left alone (None); an unclaimed top-level job,
\* or any job under force, is made terminal; a running job only gets its
\* canceled flag set.
cancel_job(st, j, w_id, force_cancel, reason) ==
    IF j \notin DOMAIN st.queue \/ st.queue[j].workspace_id # w_id
    THEN st
    ELSE IF force_cancel
            \/ (~st.queue[j].running /\ st.queue[j].parent_job = NoJob)
         THEN MoveToCompleted([st EXCEPT !.queue[j].canceled_reason = reason],
                              j, FALSE, TRUE)
         ELSE [st EXCEPT !.queue[j].canceled = TRUE,
                         !.queue[j].canceled_reason = reason]

\* windmill_worker::handle_job_error: the job is completed as failed
handle_job_error(st, j) ==
    IF j \in DOMAIN st.queue THEN MoveToCompleted(st, j, FALSE, FALSE) ELSE st

----------------------------------------------------------------------------
(* Cancellation entry points (jobs.rs) *)

\* cancel_job_api / force_cancel: the core runs inside the handler's
\* transaction, which commits on both outcomes
cancel_job_api(j, w_id) ==
    /\ SetTables(cancel_job(Tables, j, w_id, FALSE, "user"))
    /\ UNCHANGED <<concurrency_key, parallel_monitor_lock, resume_job,
                   RESTART_ZOMBIE_JOBS, reaper, calls, row_lock, enterprise>>

force_cancel(j, w_id) ==
    /\ SetTables(cancel_job(Tables, j, w_id, TRUE, "user"))
    /\ UNCHANGED <<concurrency_key, parallel_monitor_lock, resume_job,
                   RESTART_ZOMBIE_JOBS, reaper, calls, row_lock, enterprise>>

\* rows picked by the INSERT ... SELECT ... FROM queue of cancel_jobs;
\* ON CONFLICT (id) DO NOTHING returns no id for a row already terminal
trivial_jobs(st, jobs, w_id) ==
    { j \in jobs \cap DOMAIN st.queue :
        /\ ~st.queue[j].running
        /\ st.queue[j].parent_job = NoJob
        /\ st.queue[j].workspace_id = w_id
        /\ ~st.queue[j].schedule_path
        /\ j \notin DOMAIN st.completed_job }

\* a bulk cancel whose DELETE is lost: the terminal rows are inserted and
\* the pending rows stay
cancel_jobs_trivial_KeepPending(st, jobs, w_id) ==
    LET t == trivial_jobs(st, jobs, w_id) IN
    [st EXCEPT !.completed_job =
        @ @@ [j \in t |-> Terminal(st.queue[j], FALSE, TRUE)]]

\* first transaction of cancel_jobs: terminal rows are inserted for the
\* trivial jobs and their pending rows deleted, then the commit
cancel_jobs_trivial(st, jobs, w_id) ==
    LET t == trivial_jobs(st, jobs, w_id) IN
    [st EXCEPT
        !.completed_job = @ @@ [j \in t |-> Terminal(st.queue[j], FALSE, TRUE)],
        !.queue = Remove(@, {j \in t : st.queue[j].workspace_id = w_id})]

RECURSIVE cancel_each(_, _, _)
\* the loop of cancel_jobs over the ids that were not trivial
cancel_each(st, S, w_id) ==
    IF S = {} THEN st
    ELSE LET j == CHOOSE x \in S : \A y \in S : x <= y
         IN cancel_each(cancel_job(st, j, w_id, FALSE, ""), S \ {j}, w_id)

cancel_jobs(jobs, w_id) ==
    LET t == trivial_jobs(Tables, jobs, w_id)
        st1 == cancel_jobs_trivial(Tables, jobs, w_id)
    IN  /\ SetTables(cancel_each(st1, jobs \ t, w_id))
        /\ UNCHANGED <<concurrency_key, parallel_monitor_lock, resume_job,
                       RESTART_ZOMBIE_JOBS, reaper, calls, row_lock,
                       enterprise>>

----------------------------------------------------------------------------
(* Zombie reaper (monitor.rs) *)

ReaperIdle == [pc |-> "idle", timeouts |-> {}, flows |-> {}, locks |-> {}]

\* the WHERE clause of the zombie_jobs CTE
zombie_jobs(q) ==
    { j \in DOMAIN q :
        /\ Stale(q[j]) /\ q[j].running
        /\ q[j].job_kind \notin FlowLikeKinds
        /\ ~q[j].same_worker }

\* rows of zombie_jobs zj INNER JOIN concurrency_key ck that match the
\* counter row of key k
join_rows(q, k) ==
    { j \in zombie_jobs(q) :
        j \in DOMAIN concurrency_key /\ concurrency_key[j] = k }

\* UPDATE concurrency_counter ... FROM: a counter row that joins several
\* zombie jobs is updated once, from one of the join rows
update_concurrency(q, cc, pick) ==
    [k \in DOMAIN cc |->
        IF join_rows(q, k) = {} THEN cc[k] ELSE cc[k] \ {pick[k]}]

\* handle_zombie_jobs, restart statement
zombie_restart ==
    /\ reaper.pc = "idle"
    /\ IF RESTART_ZOMBIE_JOBS
       THEN /\ queue' = [j \in DOMAIN queue |->
                           IF j \in zombie_jobs(queue)
                           THEN [queue[j] EXCEPT !.running = FALSE,
                                                 !.started_at = "null"]
                           ELSE queue[j]]
            /\ \E pick \in [DOMAIN concurrency_counter -> JobIds] :
                 /\ \A k \in DOMAIN pick :
                       IF join_rows(queue, k) = {}
                       THEN pick[k] = 1
                       ELSE pick[k] \in join_rows(queue, k)
                 /\ concurrency_counter' =
                       update_concurrency(queue, concurrency_counter, pick)
       ELSE UNCHANGED <<queue, concurrency_counter>>
    /\ reaper' = [reaper EXCEPT !.pc = "timeout_query"]
    /\ UNCHANGED <<completed_job, concurrency_key, parallel_monitor_lock,
                   resume_job, RESTART_ZOMBIE_JOBS, calls, row_lock,
                   enterprise>>

\* timeout_query without the same_worker clause that restart-zombies adds
timeout_query_EveryWorker ==
    /\ reaper.pc = "timeout_query"
    /\ reaper' = [reaper EXCEPT
          !.pc = "timeouts",
          !.timeouts = { j \in DOMAIN queue :
                           /\ Stale(queue[j]) /\ queue[j].running
                           /\ queue[j].job_kind \notin FlowLikeKinds }]
    /\ UNCHANGED <<queue, completed_job, concurrency_key, concurrency_counter,
                   parallel_monitor_lock, resume_job, RESTART_ZOMBIE_JOBS,
                   calls, row_lock, enterprise>>

\* handle_zombie_jobs, timeout_query
timeout_query ==
    /\ reaper.pc = "timeout_query"
    /\ reaper' = [reaper EXCEPT
          !.pc = "timeouts",
          !.timeouts = { j \in DOMAIN queue :
                           /\ Stale(queue[j]) /\ queue[j].running
                           /\ queue[j].job_kind \notin FlowLikeKinds
                           /\ (RESTART_ZOMBIE_JOBS => queue[j].same_worker) }]
    /\ UNCHANGED <<queue, completed_job, concurrency_key, concurrency_counter,
                   parallel_monitor_lock, resume_job, RESTART_ZOMBIE_JOBS,
                   calls, row_lock, enterprise>>

\* handle_zombie_jobs, one iteration of the loop over timeouts
timeout_job(j) ==
    /\ reaper.pc = "timeouts"
    /\ j \in reaper.timeouts
    /\ SetTables(handle_job_error(Tables, j))
    /\ reaper' = [reaper EXCEPT !.timeouts = @ \ {j}]
    /\ UNCHANGED <<concurrency_key, parallel_monitor_lock, resume_job,
                   RESTART_ZOMBIE_JOBS, calls, row_lock, enterprise>>

\* handle_zombie_flows, candidate query
flows_query ==
    /\ reaper.pc = "timeouts"
    /\ reaper.timeouts = {}
    /\ reaper' = [reaper EXCEPT
          !.pc = "flows",
          !.flows = { [id |-> j, same_worker |-> queue[j].same_worker,
                       flow_status |-> queue[j].flow_status] :
                      j \in { i \in DOMAIN queue :
                                /\ queue[i].running
                                /\ queue[i].suspend = 0
                                /\ queue[i].suspend_until = "null"
                                /\ queue[i].scheduled_for = "past"
                                /\ queue[i].job_kind \in FlowReapedKinds
                                /\ Stale(queue[i])
                                /\ ~queue[i].canceled } }]
    /\ UNCHANGED <<queue, completed_job, concurrency_key, concurrency_counter,
                   parallel_monitor_lock, resume_job, RESTART_ZOMBIE_JOBS,
                   calls, row_lock, enterprise>>

\* the test of handle_zombie_flows for the cheap restart, same_worker
\* test dropped
never_started_AnyWorker(flow) ==
    LET status == flow.flow_status IN
    /\ status # NoStatus
    /\ modules_get(status[1], 0) # <<>>
    /\ modules_get(status[1], 0)[1].type = "WaitingForPriorSteps"

\* the test of handle_zombie_flows for the cheap restart, passed by a
\* flow that has any module still waiting
never_started_AnyModule(flow) ==
    LET status == flow.flow_status IN
    /\ ~flow.same_worker
    /\ status # NoStatus
    /\ \E i \in DOMAIN status[1].modules :
          status[1].modules[i].type = "WaitingForPriorSteps"

\* the test of handle_zombie_flows for the cheap restart
never_started(flow) ==
    LET status == flow.flow_status IN
    /\ ~flow.same_worker
    /\ status # NoStatus
    /\ modules_get(status[1], 0) # <<>>
    /\ modules_get(status[1], 0)[1].type = "WaitingForPriorSteps"

\* cancel_zombie_flow_job
cancel_zombie_flow_job(st, id, message) ==
    IF id \in DOMAIN st.queue
    THEN cancel_job(st, id, st.queue[id].workspace_id, TRUE, message)
    ELSE st

\* the iteration with the concurrency slot of a restarted flow kept
zombie_flow_NoRelease(flow) ==
    /\ reaper.pc = "flows"
    /\ flow \in reaper.flows
    /\ IF never_started(flow)
       THEN /\ queue' =
                 IF flow.id \in DOMAIN queue /\ ~queue[flow.id].canceled
                 THEN [queue EXCEPT ![flow.id].running = FALSE,
                                    ![flow.id].started_at = "null"]
                 ELSE queue
            /\ UNCHANGED <<completed_job, concurrency_counter>>
       ELSE SetTables(cancel_zombie_flow_job(Tables, flow.id,
                                             "hanging in between 2 steps"))
    /\ reaper' = [reaper EXCEPT !.flows = @ \ {flow}]
    /\ UNCHANGED <<concurrency_key, parallel_monitor_lock, resume_job,
                   RESTART_ZOMBIE_JOBS, calls, row_lock, enterprise>>

\* handle_zombie_flows, one iteration of the loop over flows
zombie_flow(flow) ==
    /\ reaper.pc = "flows"
    /\ flow \in reaper.flows
    /\ IF never_started(flow)
       THEN /\ concurrency_counter' =
                 IF flow.id \in DOMAIN concurrency_key
                 THEN [concurrency_counter EXCEPT
                          ![concurrency_key[flow.id]] = @ \ {flow.id}]
                 ELSE concurrency_counter
            /\ queue' =
                 IF flow.id \in DOMAIN queue /\ ~queue[flow.id].canceled
                 THEN [queue EXCEPT ![flow.id].running = FALSE,
                                    ![flow.id].started_at = "null"]
                 ELSE queue
            /\ UNCHANGED completed_job
       ELSE SetTables(cancel_zombie_flow_job(Tables, flow.id,
                                             "hanging in between 2 steps"))
    /\ reaper' = [reaper EXCEPT !.flows = @ \ {flow}]
    /\ UNCHANGED <<concurrency_key, parallel_monitor_lock, resume_job,
                   RESTART_ZOMBIE_JOBS, calls, row_lock, enterprise>>

\* handle_zombie_flows, DELETE FROM parallel_monitor_lock ... RETURNING
locks_query ==
    /\ reaper.pc = "flows"
    /\ reaper.flows = {}
    /\ LET stale == { l \in parallel_monitor_lock : l.last_ping = "stale" } IN
        /\ parallel_monitor_lock' = parallel_monitor_lock \ stale
        /\ reaper' = [reaper EXCEPT !.pc = "locks", !.locks = stale]
    /\ UNCHANGED <<queue, completed_job, concurrency_key, concurrency_counter,
                   resume_job, RESTART_ZOMBIE_JOBS, calls, row_lock,
                   enterprise>>

\* the iteration over flows2 with the parent looked up by id and running
\* only, whether canceled or not
zombie_lock_IgnoresCanceled(l) ==
    /\ reaper.pc = "locks"
    /\ l \in reaper.locks
    /\ LET id == l.parent_flow_id
           in_queue == /\ id \in DOMAIN queue
                       /\ queue[id].running
       IN IF in_queue
          THEN SetTables(cancel_zombie_flow_job(Tables, id,
                  "one of the parallel branch was unable to make the last transition"))
          ELSE UNCHANGED <<queue, completed_job, concurrency_counter>>
    /\ reaper' = [reaper EXCEPT !.locks = @ \ {l}]
    /\ UNCHANGED <<concurrency_key, parallel_monitor_lock, resume_job,
                   RESTART_ZOMBIE_JOBS, calls, row_lock, enterprise>>

\* handle_zombie_flows, one iteration of the loop over flows2
zombie_lock(l) ==
    /\ reaper.pc = "locks"
    /\ l \in reaper.locks
    /\ LET id == l.parent_flow_id
           in_queue == /\ id \in DOMAIN queue
                       /\ queue[id].running
                       /\ ~queue[id].canceled
       IN IF in_queue
          THEN SetTables(cancel_zombie_flow_job(Tables, id,
                  "one of the parallel branch was unable to make the last transition"))
          ELSE UNCHANGED <<queue, completed_job, concurrency_counter>>
    /\ reaper' = [reaper EXCEPT !.locks = @ \ {l}]
    /\ UNCHANGED <<concurrency_key, parallel_monitor_lock, resume_job,
                   RESTART_ZOMBIE_JOBS, calls, row_lock, enterprise>>

\* the pass is over; monitor_db returns until the next period
pass_done ==
    /\ reaper.pc = "locks"
    /\ reaper.locks = {}
    /\ reaper' = ReaperIdle
    /\ UNCHANGED <<queue, completed_job, concurrency_key, concurrency_counter,
                   parallel_monitor_lock, resume_job, RESTART_ZOMBIE_JOBS,
                   calls, row_lock, enterprise>>

----------------------------------------------------------------------------
(* The job queue under workers, cancellations and the reaper *)

NoCalls == << >>

Init ==
    /\ queue = << >>
    /\ completed_job = << >>
    /\ concurrency_key = << >>
    /\ concurrency_counter = [k \in Keys |-> {}]
    /\ parallel_monitor_lock = {}
    /\ resume_job = {}
    /\ RESTART_ZOMBIE_JOBS \in BOOLEAN
    /\ reaper = ReaperIdle
    /\ calls = NoCalls
    /\ row_lock = << >>
    /\ enterprise = FALSE

Next ==
    \/ \E j \in JobIds, in \in PushInputs : push(j, in)
    \/ \E j \in JobIds : claim(j)
    \/ \E j \in JobIds : ping(j)
    \/ \E j \in JobIds : timeout_elapses(j)
    \/ \E j \in JobIds, success \in BOOLEAN : complete(j, success)
    \/ \E j \in JobIds : flow_transition(j)
    \/ \E f \in JobIds, j \in JobIds : lock_branch(f, j)
    \/ \E l \in parallel_monitor_lock : lock_goes_stale(l)
    \/ \E j \in JobIds, w \in Workspaces : cancel_job_api(j, w)
    \/ \E j \in JobIds, w \in Workspaces : force_cancel(j, w)
    \/ \E jobs \in SUBSET JobIds, w \in Workspaces : cancel_jobs(jobs, w)
    \/ zombie_restart
    \/ timeout_query
    \/ \E j \in JobIds : timeout_job(j)
    \/ flows_query
    \/ \E flow \in reaper.flows : zombie_flow(flow)
    \/ locks_query
    \/ \E l \in reaper.locks : zombie_lock(l)
    \/ pass_done

Spec == Init /\ [][Next]_vars
----------------------------------------------------------------------------
(* Suspend/resume coordinator (jobs.rs) *)

RECURSIVE Xor(_, _)
\* u128 ^ u128, bit by bit
Xor(a, b) ==
    IF a = 0 THEN b
    ELSE IF b = 0 THEN a
    ELSE (((a % 2) + (b % 2)) % 2) + (2 * Xor(a \div 2, b \div 2))

\* Uuid::from_u128(job_id.as_u128() ^ resume_id as u128)
ResumeJobId(job_id, resume_id) == Xor(job_id, resume_id)

IdleCall ==
    [pc |-> "idle", kind |-> "none", job_id |-> NoJob, resume_id |-> 0,
     approver |-> <<>>, secret |-> <<>>,
     approved |-> FALSE, authed |-> <<>>, flow |-> <<>>, write |-> <<>>,
     audit |-> 0, result |-> ""]

InFlight(c) == calls[c].pc \notin {"idle", "done"}

\* the request returns: Ok(StatusCode::CREATED) or an error
Return(c, result) ==
    calls' = [calls EXCEPT ![c].pc = "done", ![c].result = result]

\* FlowInfo of a queue row
FlowInfo(id) ==
    [id |-> id, suspend |-> queue[id].suspend,
     flow_status |-> queue[id].flow_status]

\* SELECT parent_job FROM queue WHERE id = $1
\* UNION ALL SELECT parent_job FROM completed_job WHERE id = $1
parent_of(job_id) ==
    IF job_id \in DOMAIN queue THEN queue[job_id].parent_job
    ELSE IF job_id \in DOMAIN completed_job
         THEN completed_job[job_id].parent_job
         ELSE NoJob

\* the policy without the test that the caller is logged in
conditionally_require_authed_user_AnonymousOk(authed, flow_status, trigger_email) ==
    IF flow_status.approval_conditions = <<>> THEN "ok"
    ELSE LET ac == flow_status.approval_conditions[1] IN
         IF ~ac.user_auth_required THEN "ok"
         ELSE IF ~enterprise THEN "BadRequest"
         ELSE IF authed = <<>> THEN "ok"
         ELSE IF authed[1].is_admin THEN "ok"
         ELSE IF ac.self_approval_disabled /\ authed[1].email = trigger_email
              THEN "PermissionDenied"
         ELSE IF ac.user_groups_required # {}
                 /\ authed[1].groups \cap ac.user_groups_required = {}
              THEN "PermissionDenied"
         ELSE "ok"

\* the policy without the self-approval test
conditionally_require_authed_user_SelfApproval(authed, flow_status, trigger_email) ==
    IF flow_status.approval_conditions = <<>> THEN "ok"
    ELSE LET ac == flow_status.approval_conditions[1] IN
         IF ~ac.user_auth_required THEN "ok"
         ELSE IF ~enterprise THEN "BadRequest"
         ELSE IF authed = <<>> THEN "NotAuthorized"
         ELSE IF authed[1].is_admin THEN "ok"
         ELSE IF ac.user_groups_required # {}
                 /\ authed[1].groups \cap ac.user_groups_required = {}
              THEN "PermissionDenied"
         ELSE "ok"

\* conditionally_require_authed_user
conditionally_require_authed_user(authed, flow_status, trigger_email) ==
    IF flow_status.approval_conditions = <<>> THEN "ok"
    ELSE LET ac == flow_status.approval_conditions[1] IN
         IF ~ac.user_auth_required THEN "ok"
         ELSE IF ~enterprise THEN "BadRequest"
         ELSE IF authed = <<>> THEN "NotAuthorized"
         ELSE IF authed[1].is_admin THEN "ok"
         ELSE IF ac.self_approval_disabled /\ authed[1].email = trigger_email
              THEN "PermissionDenied"
         ELSE IF ac.user_groups_required # {}
                 /\ authed[1].groups \cap ac.user_groups_required = {}
              THEN "PermissionDenied"
         ELSE "ok"

TriggerEmail == "trigger@w1"

\* Uuid::as_bytes: 16 bytes
as_bytes(job_id) == [i \in 1 .. 16 |-> IF i = 16 THEN job_id ELSE 0]

\* u32::to_be_bytes: 4 bytes, most significant first
to_be_bytes(resume_id) ==
    <<(resume_id \div 16777216) % 256, (resume_id \div 65536) % 256,
      (resume_id \div 256) % 256, resume_id % 256>>

\* Option<String> approvers: None, Some(""), Some("a"), Some("b"), a string
\* being its sequence of bytes
Approvers == { <<>>, << <<>> >>, << <<97>> >>, << <<98>> >> }

\* the bytes fed to the MAC, in the order of the mac.update calls
mac_input(job_id, resume_id, approver) ==
    as_bytes(job_id) \o to_be_bytes(resume_id)
        \o (IF approver # <<>> THEN approver[1] ELSE <<>>)

\* get_workspace_key: the key of the workspace, one byte here
get_workspace_key(w_id) == IF w_id = "w1" THEN <<11>> ELSE <<12>>

\* HmacSha256 as an ideal MAC: tags of two (key, message) pairs are equal
\* only when the pairs are
HmacSha256(key, msg) == key \o msg

\* hex::encode: two digits per byte
hex_encode(bytes) ==
    [i \in 1 .. 2 * Len(bytes) |->
        IF i % 2 = 1 THEN bytes[(i + 1) \div 2] \div 16
                     ELSE bytes[i \div 2] % 16]

\* hex::decode: <<>> (an error) for an odd number of digits, else <<bytes>>
hex_decode(digits) ==
    IF Len(digits) % 2 = 1 THEN <<>>
    ELSE <<[i \in 1 .. Len(digits) \div 2 |->
              16 * digits[2 * i - 1] + digits[2 * i]]>>

\* create_signature
create_signature(key, job_id, resume_id, approver) ==
    hex_encode(HmacSha256(key, mac_input(job_id, resume_id, approver)))

\* verify_suspended_secret: TRUE for Ok(())
verify_suspended_secret(w_id, job_id, resume_id, approver, secret) ==
    LET key == get_workspace_key(w_id)
        tag == HmacSha256(key, mac_input(job_id, resume_id, approver))
    IN /\ hex_decode(secret) # <<>>
       /\ hex_decode(secret)[1] = tag

\* resume_suspended_job / cancel_suspended_job, up to the load of the
\* owning flow row: the capability is verified first, then
\* get_suspended_parent_flow_info reads the flow row FOR UPDATE in a
\* statement of its own, so it waits for a lock and keeps none
resume_begin(c, approved, job_id, resume_id, approver, secret, authed) ==
    /\ calls[c].pc = "idle"
    /\ \A d \in Calls : d < c => calls[d].pc # "idle"
    /\ LET p == parent_of(job_id)
           call == [IdleCall EXCEPT
                      !.kind = IF approved THEN "resume" ELSE "cancel",
                      !.job_id = job_id, !.resume_id = resume_id,
                      !.approver = approver, !.secret = secret,
                      !.approved = approved, !.authed = authed]
       IN IF ~verify_suspended_secret("w1", job_id, resume_id, approver, secret)
          THEN calls' = [calls EXCEPT ![c] =
                  [call EXCEPT !.pc = "done", !.result = "Invalid signature"]]
          ELSE
          /\ p \notin DOMAIN row_lock
          /\ calls' = [calls EXCEPT ![c] =
                IF p \in DOMAIN queue
                THEN [call EXCEPT !.pc = "fetch_completed",
                                  !.flow = <<FlowInfo(p)>>]
                ELSE [call EXCEPT !.pc = "done",
                                  !.result = "parent flow job not found"]]
    /\ UNCHANGED <<queue, completed_job, concurrency_key, concurrency_counter,
                   parallel_monitor_lock, resume_job, RESTART_ZOMBIE_JOBS,
                   reaper, row_lock, enterprise>>

\* after GetQuery::fetch has found the flow: the approval policy
policy_checked(c, flow_status) ==
    LET r == conditionally_require_authed_user(calls[c].authed, flow_status,
                                               TriggerEmail)
    IN IF flow_status = NoStatus
       THEN Return(c, "unable to find the flow status in the flow job")
       ELSE IF r = "ok"
            THEN calls' = [calls EXCEPT ![c].pc = "exists"]
            ELSE Return(c, r)

\* GetQuery::fetch, first lookup: fetch_completed
fetch_completed(c) ==
    /\ calls[c].pc = "fetch_completed"
    /\ LET id == calls[c].flow[1].id IN
       IF id \in DOMAIN completed_job
       THEN policy_checked(c, IF completed_job[id].flow_status = NoStatus
                              THEN NoStatus
                              ELSE completed_job[id].flow_status[1])
       ELSE calls' = [calls EXCEPT ![c].pc = "fetch_queued"]
    /\ UNCHANGED <<queue, completed_job, concurrency_key, concurrency_counter,
                   parallel_monitor_lock, resume_job, RESTART_ZOMBIE_JOBS,
                   reaper, row_lock, enterprise>>

\* GetQuery::fetch, second lookup: fetch_queued, then not_found_if_none
fetch_queued(c) ==
    /\ calls[c].pc = "fetch_queued"
    /\ LET id == calls[c].flow[1].id IN
       IF id \in DOMAIN queue
       THEN policy_checked(c, IF queue[id].flow_status = NoStatus
                              THEN NoStatus
                              ELSE queue[id].flow_status[1])
       ELSE Return(c, "Job not found")
    /\ UNCHANGED <<queue, completed_job, concurrency_key, concurrency_counter,
                   parallel_monitor_lock, resume_job, RESTART_ZOMBIE_JOBS,
                   reaper, row_lock, enterprise>>

\* SELECT EXISTS (SELECT 1 FROM resume_job WHERE id = $1)
exists(job_id, resume_id) ==
    \E r \in resume_job : r.id = ResumeJobId(job_id, resume_id)

\* the duplicate check left out: every request goes on to the INSERT
resume_exists_Skipped(c) ==
    /\ calls[c].pc = "exists"
    /\ calls' = [calls EXCEPT ![c].pc = "insert"]
    /\ UNCHANGED <<queue, completed_job, concurrency_key, concurrency_counter,
                   parallel_monitor_lock, resume_job, RESTART_ZOMBIE_JOBS,
                   reaper, row_lock, enterprise>>

\* resume_suspended_job_internal, the duplicate check
resume_exists(c) ==
    /\ calls[c].pc = "exists"
    /\ IF exists(calls[c].job_id, calls[c].resume_id)
       THEN Return(c, "resume request already sent")
       ELSE calls' = [calls EXCEPT ![c].pc = "insert"]
    /\ UNCHANGED <<queue, completed_job, concurrency_key, concurrency_counter,
                   parallel_monitor_lock, resume_job, RESTART_ZOMBIE_JOBS,
                   reaper, row_lock, enterprise>>

\* rows a transaction has inserted into resume_job and not yet committed
Inserted(c) == calls[c].pc \in {"update", "commit"}

\* primary key of resume_job: an INSERT of a committed id fails
unique_violation(id) == \E r \in resume_job : r.id = id

\* an INSERT that does nothing on a conflicting id instead of failing
insert_resume_job_OnConflictDoNothing(c) ==
    /\ calls[c].pc = "insert"
    /\ calls' = [calls EXCEPT ![c].pc = "update"]
    /\ UNCHANGED <<queue, completed_job, concurrency_key, concurrency_counter,
                   parallel_monitor_lock, resume_job, RESTART_ZOMBIE_JOBS,
                   reaper, row_lock, enterprise>>

\* an INSERT on the pool instead of the transaction: the row is committed by
\* the statement itself
insert_resume_job_Autocommit(c) ==
    /\ calls[c].pc = "insert"
    /\ LET id == ResumeJobId(calls[c].job_id, calls[c].resume_id) IN
        IF unique_violation(id)
        THEN /\ Return(c, "duplicate key value violates unique constraint")
             /\ UNCHANGED resume_job
        ELSE /\ calls' = [calls EXCEPT ![c].pc = "update"]
             /\ resume_job' = resume_job \cup
                   {[id |-> id, resume_id |-> calls[c].resume_id,
                     job |-> calls[c].job_id, flow |-> calls[c].flow[1].id,
                     approved |-> calls[c].approved]}
    /\ UNCHANGED <<queue, completed_job, concurrency_key, concurrency_counter,
                   parallel_monitor_lock, RESTART_ZOMBIE_JOBS,
                   reaper, row_lock, enterprise>>

\* db.begin() and insert_resume_job; an INSERT of an id that another open
\* transaction has inserted waits for that transaction
insert_resume_job(c) ==
    /\ calls[c].pc = "insert"
    /\ LET id == ResumeJobId(calls[c].job_id, calls[c].resume_id) IN
        /\ \A d \in Calls \ {c} :
              Inserted(d) =>
                 ResumeJobId(calls[d].job_id, calls[d].resume_id) # id
        /\ IF unique_violation(id)
           THEN Return(c, "duplicate key value violates unique constraint")
           ELSE calls' = [calls EXCEPT ![c].pc = "update"]
    /\ UNCHANGED <<queue, completed_job, concurrency_key, concurrency_counter,
                   parallel_monitor_lock, resume_job, RESTART_ZOMBIE_JOBS,
                   reaper, row_lock, enterprise>>

\* the decrement without the test 0 < flow.suspend
resume_immediately_if_relevant_Unguarded(flow, job_id) ==
    IF flow.flow_status = NoStatus
    THEN <<>>
    ELSE LET cur == current_step(flow.flow_status[1]) IN
         IF cur # <<>> /\ cur[1].type = "WaitingForEvents"
            /\ cur[1].job = job_id
         THEN <<flow.suspend - 1>>
         ELSE <<>>

\* the approval that writes suspend back without decrementing it
resume_immediately_if_relevant_NoDecrement(flow, job_id) ==
    IF 0 < flow.suspend
    THEN IF flow.flow_status = NoStatus
         THEN <<>>
         ELSE LET cur == current_step(flow.flow_status[1]) IN
              IF cur # <<>> /\ cur[1].type = "WaitingForEvents"
                 /\ cur[1].job = job_id
              THEN <<flow.suspend>>
              ELSE <<>>
    ELSE <<>>

\* resume_immediately_if_relevant: the value written to suspend, if any
resume_immediately_if_relevant(flow, job_id) ==
    IF 0 < flow.suspend
    THEN IF flow.flow_status = NoStatus
         THEN <<>>
         ELSE LET cur == current_step(flow.flow_status[1]) IN
              IF cur # <<>> /\ cur[1].type = "WaitingForEvents"
                 /\ cur[1].job = job_id
              THEN <<flow.suspend - 1>>
              ELSE <<>>
    ELSE <<>>

\* a rejection handled like an approval
suspend_update_AsApproval(approved, flow, job_id) ==
    LET cur == current_step(flow.flow_status[1]) IN
    IF 0 < flow.suspend /\ cur # <<>> /\ cur[1].type = "WaitingForEvents"
       /\ cur[1].job = job_id
    THEN <<flow.suspend - 1>>
    ELSE <<>>

\* the branch on approved of resume_suspended_job_internal
suspend_update(approved, flow, job_id) ==
    IF ~approved THEN <<0>>
    ELSE resume_immediately_if_relevant(flow, job_id)

\* the UPDATE queue SET suspend of the request's transaction: it waits for
\* the row lock and holds it until the commit
resume_update(c) ==
    /\ calls[c].pc = "update"
    /\ LET flow == calls[c].flow[1]
           w == suspend_update(calls[c].approved, flow, calls[c].job_id)
       IN IF w = <<>> \/ flow.id \notin DOMAIN queue
          THEN /\ calls' = [calls EXCEPT ![c].pc = "commit"]
               /\ UNCHANGED row_lock
          ELSE /\ flow.id \notin DOMAIN row_lock
               /\ row_lock' = row_lock @@ (flow.id :> c)
               /\ calls' = [calls EXCEPT ![c].pc = "commit", ![c].write = w]
    /\ UNCHANGED <<queue, completed_job, concurrency_key, concurrency_counter,
                   parallel_monitor_lock, resume_job, RESTART_ZOMBIE_JOBS,
                   reaper, enterprise>>

\* audit_log and tx.commit(): the inserted resume_job row and the suspend
\* written by the transaction become visible, the row lock is released
resume_commit(c) ==
    /\ calls[c].pc = "commit"
    /\ LET flow == calls[c].flow[1] IN
        /\ resume_job' = resume_job \cup
              {[id |-> ResumeJobId(calls[c].job_id, calls[c].resume_id),
                resume_id |-> calls[c].resume_id, job |-> calls[c].job_id,
                flow |-> flow.id, approved |-> calls[c].approved]}
        /\ queue' = IF calls[c].write # <<>>
                    THEN [queue EXCEPT ![flow.id].suspend = calls[c].write[1]]
                    ELSE queue
        /\ row_lock' = Remove(row_lock, {f \in DOMAIN row_lock : row_lock[f] = c})
    /\ calls' = [calls EXCEPT ![c].pc = "done", ![c].audit = 1,
                              ![c].result = "201"]
    /\ UNCHANGED <<completed_job, concurrency_key, concurrency_counter,
                   parallel_monitor_lock, RESTART_ZOMBIE_JOBS, reaper,
                   enterprise>>

\* resume_suspended_flow_as_owner, up to get_suspended_flow_info: the flow
\* row is read inside the transaction without a lock
owner_begin(c, flow_id, authed) ==
    /\ calls[c].pc = "idle"
    /\ \A d \in Calls : d < c => calls[d].pc # "idle"
    /\ LET call == [IdleCall EXCEPT !.kind = "owner", !.approved = TRUE,
                                    !.authed = authed]
       IN IF flow_id \notin DOMAIN queue
          THEN calls' = [calls EXCEPT ![c] =
                  [call EXCEPT !.pc = "done",
                               !.result = "parent flow job not found"]]
          ELSE LET flow == FlowInfo(flow_id)
                   cur == IF flow.flow_status = NoStatus THEN <<>>
                          ELSE modules_get(flow.flow_status[1],
                                           flow.flow_status[1].step)
               IN IF cur # <<>> /\ cur[1].type = "WaitingForEvents"
                  THEN calls' = [calls EXCEPT ![c] =
                          [call EXCEPT
                             !.pc = "insert", !.job_id = cur[1].job,
                             !.flow = <<flow>>]]
                  ELSE calls' = [calls EXCEPT ![c] =
                          [call EXCEPT
                             !.pc = "done",
                             !.result = "the flow is not in a suspended state anymore"]]
    /\ UNCHANGED <<queue, completed_job, concurrency_key, concurrency_counter,
                   parallel_monitor_lock, resume_job, RESTART_ZOMBIE_JOBS,
                   reaper, row_lock, enterprise>>

----------------------------------------------------------------------------
(* Flow orchestrator of the worker, consumed by the coordinator *)

ResumesOf(j) == { r \in resume_job : r.job = j }

\* the running row of a step job of flow f
StepJobRow(f) ==
    [NewRow([job_kind |-> "script", workspace_id |-> "w1", parent_job |-> f,
             schedule_path |-> FALSE, same_worker |-> FALSE,
             scheduled_for |-> "past", flow_status |-> NoStatus])
     EXCEPT !.running = TRUE, !.started_at = "set", !.last_ping = "fresh"]

\* flow f leaves the module of step job j: the next module starts with a
\* new step job, or the flow is complete and becomes terminal
flow_proceeds(st, f, j) ==
    LET s == st.queue[f].flow_status[1]
        done == [s EXCEPT !.modules[s.step + 1] = Success(j),
                          !.step = s.step + 1]
    IN IF s.step + 1 < Len(s.modules)
       THEN [st EXCEPT !.queue =
               [@ EXCEPT ![f].flow_status =
                            <<[done EXCEPT !.modules[s.step + 2] =
                                              InProgress(j + 1)]>>,
                         ![f].suspend = 0,
                         ![f].suspend_until = "null"]
               @@ ((j + 1) :> StepJobRow(f))]
       ELSE [st EXCEPT
               !.queue = Remove(@, {f}),
               !.completed_job = @ @@
                  (f :> Terminal([st.queue[f] EXCEPT !.flow_status = <<done>>],
                                 TRUE, FALSE))]

\* flow f fails (a disapproval was received) and becomes terminal
flow_fails(st, f) ==
    [st EXCEPT !.queue = Remove(@, {f}),
               !.completed_job = @ @@ (f :> Terminal(st.queue[f], FALSE, FALSE))]

\* the step job of the current module completes and the orchestrator, holding
\* the flow row, counts the resume_job rows of that job: it fails on a
\* disapproval, proceeds when enough events arrived, and otherwise enters
\* WaitingForEvents with suspend = required - arrived
step_done(f, required) ==
    /\ f \in DOMAIN queue
    /\ f \notin DOMAIN row_lock
    /\ queue[f].flow_status # NoStatus
    /\ LET s == queue[f].flow_status[1]
           cur == current_step(s)
       IN /\ cur # <<>>
          /\ cur[1].type = "InProgress"
          /\ cur[1].job \in DOMAIN queue
          /\ LET j == cur[1].job
                 arrived == Cardinality(ResumesOf(j))
                 st == [queue |-> Remove(queue, {j}),
                        completed_job |-> completed_job @@
                            (j :> Terminal(queue[j], TRUE, FALSE))]
                 nxt == IF \E r \in ResumesOf(j) : ~r.approved
                        THEN flow_fails(st, f)
                        ELSE IF arrived >= required
                        THEN flow_proceeds(st, f, j)
                        ELSE [st EXCEPT
                                !.queue[f].flow_status =
                                   <<[s EXCEPT !.modules[s.step + 1] =
                                         WaitingForEvents(j, required)]>>,
                                !.queue[f].suspend = required - arrived,
                                !.queue[f].suspend_until = "set"]
             IN /\ queue' = nxt.queue
                /\ completed_job' = nxt.completed_job
    /\ UNCHANGED <<concurrency_key, concurrency_counter, parallel_monitor_lock,
                   resume_job, RESTART_ZOMBIE_JOBS, reaper, calls, row_lock,
                   enterprise>>

\* a worker pulls the suspended flow once suspend = 0: the flow proceeds to
\* the next module when the events it waits for have arrived with no
\* disapproval, and fails otherwise
flow_wakes(f) ==
    /\ f \in DOMAIN queue
    /\ f \notin DOMAIN row_lock
    /\ queue[f].flow_status # NoStatus
    /\ queue[f].suspend = 0
    /\ LET s == queue[f].flow_status[1]
           cur == current_step(s)
           st == [queue |-> queue, completed_job |-> completed_job]
       IN /\ cur # <<>>
          /\ cur[1].type = "WaitingForEvents"
          /\ LET nxt == IF \/ \E r \in ResumesOf(cur[1].job) : ~r.approved
                           \/ Cardinality(ResumesOf(cur[1].job)) < cur[1].count
                        THEN flow_fails(st, f)
                        ELSE flow_proceeds(st, f, cur[1].job)
             IN /\ queue' = nxt.queue
                /\ completed_job' = nxt.completed_job
    /\ UNCHANGED <<concurrency_key, concurrency_counter, parallel_monitor_lock,
                   resume_job, RESTART_ZOMBIE_JOBS, reaper, calls, row_lock,
                   enterprise>>

----------------------------------------------------------------------------
(* A flow with approval steps under concurrent resume requests *)

\* the flow of this scenario; its step jobs are the ids of JobIds
TheFlow == MaxJobs + 1

\* the capability get_resume_urls issues in workspace w1
Issued(job_id, resume_id, approver) ==
    create_signature(get_workspace_key("w1"), job_id, resume_id, approver)

AuthedInputs ==
    { <<>>, <<[email |-> "approver@w1", is_admin |-> FALSE, groups |-> {}]>> }

ApprovalConditionsInputs ==
    { <<>>,
      <<[user_auth_required |-> TRUE, self_approval_disabled |-> FALSE,
         user_groups_required |-> {}]>> }

\* the flow has been pushed and claimed and its first step job is running
InitResume ==
    /\ \E ac \in ApprovalConditionsInputs :
         queue =
           (TheFlow :>
              [NewRow([job_kind |-> "flow", workspace_id |-> "w1",
                       parent_job |-> NoJob, schedule_path |-> FALSE,
                       same_worker |-> FALSE, scheduled_for |-> "past",
                       flow_status |->
                          <<[step |-> 0,
                             modules |-> [i \in 1 .. MaxJobs |->
                                            IF i = 1 THEN InProgress(1)
                                            ELSE WaitingForPriorSteps],
                             approval_conditions |-> ac]>>])
               EXCEPT !.running = TRUE, !.started_at = "set",
                      !.last_ping = "fresh"])
           @@ (1 :> StepJobRow(TheFlow))
    /\ completed_job = << >>
    /\ concurrency_key = << >>
    /\ concurrency_counter = [k \in Keys |-> {}]
    /\ parallel_monitor_lock = {}
    /\ resume_job = {}
    /\ RESTART_ZOMBIE_JOBS = TRUE
    /\ reaper = ReaperIdle
    /\ calls = [c \in Calls |-> IdleCall]
    /\ row_lock = << >>
    /\ enterprise \in BOOLEAN

NextResume ==
    \/ \E c \in Calls, approved \in BOOLEAN, j \in JobIds, r \in ResumeIds,
          authed \in AuthedInputs :
            resume_begin(c, approved, j, r, <<>>, Issued(j, r, <<>>), authed)
    \/ \E c \in Calls : fetch_completed(c)
    \/ \E c \in Calls : fetch_queued(c)
    \/ \E c \in Calls : resume_exists(c)
    \/ \E c \in Calls : insert_resume_job(c)
    \/ \E c \in Calls : resume_update(c)
    \/ \E c \in Calls : resume_commit(c)
    \/ \E c \in Calls, authed \in AuthedInputs : owner_begin(c, TheFlow, authed)
    \/ \E required \in 1 .. MaxSuspend : step_done(TheFlow, required)
    \/ flow_wakes(TheFlow)

SpecResume == InitResume /\ [][NextResume]_vars

\* requests applied one after another: while a request is being processed
\* nothing else moves
OneAtATime == \A c \in Calls : InFlight(c) => calls'[c] # calls[c]

NextResumeSeq ==
    \/ \E c \in Calls, approved \in BOOLEAN, j \in JobIds, r \in ResumeIds,
          authed \in AuthedInputs :
            resume_begin(c, approved, j, r, <<>>, Issued(j, r, <<>>), authed)
                /\ OneAtATime
    \/ \E c \in Calls : fetch_completed(c) /\ OneAtATime
    \/ \E c \in Calls : fetch_queued(c) /\ OneAtATime
    \/ \E c \in Calls : resume_exists(c) /\ OneAtATime
    \/ \E c \in Calls : insert_resume_job(c) /\ OneAtATime
    \/ \E c \in Calls : resume_update(c) /\ OneAtATime
    \/ \E c \in Calls : resume_commit(c) /\ OneAtATime
    \/ \E c \in Calls, authed \in AuthedInputs :
            owner_begin(c, TheFlow, authed) /\ OneAtATime
    \/ \E required \in 1 .. MaxSuspend :
            step_done(TheFlow, required) /\ OneAtATime
    \/ flow_wakes(TheFlow) /\ OneAtATime

SpecResumeSeq == InitResume /\ [][NextResumeSeq]_vars

\* requests one at a time that present a capability issued for job 1 and
\* resume id 0, with or without an approver, under any job id, resume id and
\* approver parameter
IssuedApprovers == { <<>>, << <<97>> >> }
IssuedSecrets == { Issued(1, 0, a) : a \in IssuedApprovers }

NextSignature ==
    \/ \E c \in Calls, approved \in BOOLEAN, j \in JobIds, r \in ResumeIds,
          approver \in Approvers, secret \in IssuedSecrets :
            resume_begin(c, approved, j, r, approver, secret, <<>>)
                /\ OneAtATime
    \/ \E c \in Calls : fetch_completed(c) /\ OneAtATime
    \/ \E c \in Calls : fetch_queued(c) /\ OneAtATime
    \/ \E c \in Calls : resume_exists(c) /\ OneAtATime
    \/ \E c \in Calls : insert_resume_job(c) /\ OneAtATime
    \/ \E c \in Calls : resume_update(c) /\ OneAtATime
    \/ \E c \in Calls : resume_commit(c) /\ OneAtATime
    \/ \E required \in 1 .. MaxSuspend :
            step_done(TheFlow, required) /\ OneAtATime
    \/ flow_wakes(TheFlow) /\ OneAtATime

SpecSignature == InitResume /\ [][NextSignature]_vars

----------------------------------------------------------------------------
(* API requests on jobs, under workers that claim and complete (jobs.rs) *)

\* a request of the jobs API: seen is what the request's first statement
\* found for its id, audit the number of audit records it committed
IdleRequest ==
    [pc |-> "idle", kind |-> "none", job_id |-> NoJob, w_id |-> "w1",
     seen |-> "none", audit |-> 0, changed |-> FALSE, result |-> "",
     jobs |-> {}, eligible |-> {}, trivial_jobs |-> {}, rows |-> << >>,
     core |-> {}, uuids |-> {}]

\* where job j of workspace w_id is
Where(j, w_id) ==
    IF j \in DOMAIN queue /\ queue[j].workspace_id = w_id THEN "pending"
    ELSE IF j \in DOMAIN completed_job /\ completed_job[j].workspace_id = w_id
         THEN "terminal"
         ELSE "absent"

\* windmill_queue::job_is_complete
job_is_complete(j, w_id) ==
    j \in DOMAIN completed_job /\ completed_job[j].workspace_id = w_id

\* cancel_job_api (force = FALSE) and force_cancel (force = TRUE): the
\* transaction around the cancellation core; with Some(id) from the core
\* the audit record is written and the transaction commits
cancel_request(c, j, w_id, force) ==
    /\ calls[c].pc = "idle"
    /\ \A d \in Calls : d < c => calls[d].pc # "idle"
    /\ LET st == cancel_job(Tables, j, w_id, force, "user")
           job_option == Where(j, w_id) = "pending"
           call == [IdleRequest EXCEPT
                      !.kind = IF force THEN "force_cancel" ELSE "cancel",
                      !.job_id = j, !.w_id = w_id, !.seen = Where(j, w_id),
                      !.changed = (st # Tables)]
       IN /\ SetTables(st)
          /\ calls' = [calls EXCEPT ![c] =
                IF job_option
                THEN [call EXCEPT !.pc = "done", !.audit = 1, !.result = "ok"]
                ELSE [call EXCEPT !.pc = "is_complete"]]
    /\ UNCHANGED <<concurrency_key, parallel_monitor_lock, resume_job,
                   RESTART_ZOMBIE_JOBS, reaper, row_lock, enterprise>>

\* a cancel whose lookup of the terminal table is lost: NotFound always
cancel_is_complete_Lost(c) ==
    /\ calls[c].pc = "is_complete"
    /\ Return(c, "NotFound")
    /\ UNCHANGED <<queue, completed_job, concurrency_key, concurrency_counter,
                   parallel_monitor_lock, resume_job, RESTART_ZOMBIE_JOBS,
                   reaper, row_lock, enterprise>>

\* cancel_job_api / force_cancel after None from the core: the response
\* depends on job_is_complete, read after the commit
cancel_is_complete(c) ==
    /\ calls[c].pc = "is_complete"
    /\ IF job_is_complete(calls[c].job_id, calls[c].w_id)
       THEN Return(c, "already completed")
       ELSE Return(c, "NotFound")
    /\ UNCHANGED <<queue, completed_job, concurrency_key, concurrency_counter,
                   parallel_monitor_lock, resume_job, RESTART_ZOMBIE_JOBS,
                   reaper, row_lock, enterprise>>

\* get of a job, GetQuery::fetch, first lookup: fetch_completed
get_fetch_completed(c, j, w_id) ==
    /\ calls[c].pc = "idle"
    /\ \A d \in Calls : d < c => calls[d].pc # "idle"
    /\ LET call == [IdleRequest EXCEPT !.kind = "get", !.job_id = j,
                                       !.w_id = w_id, !.seen = Where(j, w_id)]
       IN calls' = [calls EXCEPT ![c] =
             IF j \in DOMAIN completed_job /\ completed_job[j].workspace_id = w_id
             THEN [call EXCEPT !.pc = "done", !.result = "CompletedJob"]
             ELSE [call EXCEPT !.pc = "fetch_queued"]]
    /\ UNCHANGED <<queue, completed_job, concurrency_key, concurrency_counter,
                   parallel_monitor_lock, resume_job, RESTART_ZOMBIE_JOBS,
                   reaper, row_lock, enterprise>>

\* get of a job, GetQuery::fetch, second lookup: fetch_queued, then
\* not_found_if_none
get_fetch_queued(c) ==
    /\ calls[c].pc = "fetch_queued"
    /\ calls[c].kind = "get"
    /\ IF calls[c].job_id \in DOMAIN queue
          /\ queue[calls[c].job_id].workspace_id = calls[c].w_id
       THEN Return(c, "QueuedJob")
       ELSE Return(c, "NotFound")
    /\ UNCHANGED <<queue, completed_job, concurrency_key, concurrency_counter,
                   parallel_monitor_lock, resume_job, RESTART_ZOMBIE_JOBS,
                   reaper, row_lock, enterprise>>

\* locks held by transaction c are released
Unlock(c) == Remove(row_lock, {j \in DOMAIN row_lock : row_lock[j] = c})

\* the request returns when its loop has no id left
bulk_next(call) ==
    IF call.jobs \ (call.trivial_jobs \cup call.core) = {}
    THEN [call EXCEPT !.pc = "done", !.result = "ok",
                      !.uuids = @ \cup call.trivial_jobs]
    ELSE [call EXCEPT !.pc = "loop"]

\* the INSERT ... SELECT of cancel_jobs without FOR UPDATE SKIP LOCKED: no
\* row is locked and no locked row is skipped
bulk_insert_NoLock(c, jobs, w_id) ==
    /\ calls[c].pc = "idle"
    /\ \A d \in Calls : d < c => calls[d].pc # "idle"
    /\ LET t == trivial_jobs(Tables, jobs, w_id) IN
        /\ UNCHANGED row_lock
        /\ calls' = [calls EXCEPT ![c] =
              [IdleRequest EXCEPT
                 !.pc = "commit", !.kind = "cancel_jobs", !.w_id = w_id,
                 !.jobs = jobs,
                 !.eligible = t,
                 !.trivial_jobs = t,
                 !.rows = [j \in t |-> Terminal(queue[j], FALSE, TRUE)]]]
    /\ UNCHANGED <<queue, completed_job, concurrency_key, concurrency_counter,
                   parallel_monitor_lock, resume_job, RESTART_ZOMBIE_JOBS,
                   reaper, enterprise>>

\* cancel_jobs, db.begin() and the INSERT INTO completed_job ... SELECT ...
\* FROM queue ... FOR UPDATE SKIP LOCKED ... RETURNING id: the selected rows
\* are locked, the inserted rows are not visible before the commit
bulk_insert(c, jobs, w_id) ==
    /\ calls[c].pc = "idle"
    /\ \A d \in Calls : d < c => calls[d].pc # "idle"
    /\ LET t == { j \in trivial_jobs(Tables, jobs, w_id) :
                    j \notin DOMAIN row_lock } IN
        /\ row_lock' = row_lock @@ [j \in t |-> c]
        /\ calls' = [calls EXCEPT ![c] =
              [IdleRequest EXCEPT
                 !.pc = "commit", !.kind = "cancel_jobs", !.w_id = w_id,
                 !.jobs = jobs,
                 !.eligible = t,
                 !.trivial_jobs = t,
                 !.rows = [j \in t |-> Terminal(queue[j], FALSE, TRUE)]]]
    /\ UNCHANGED <<queue, completed_job, concurrency_key, concurrency_counter,
                   parallel_monitor_lock, resume_job, RESTART_ZOMBIE_JOBS,
                   reaper, enterprise>>

\* the commit of a bulk cancel whose DELETE is lost
bulk_commit_InsertOnly(c) ==
    /\ calls[c].pc = "commit"
    /\ calls[c].kind = "cancel_jobs"
    /\ completed_job' = completed_job @@ calls[c].rows
    /\ row_lock' = Unlock(c)
    /\ calls' = [calls EXCEPT ![c] =
          bulk_next([calls[c] EXCEPT
                       !.changed = (calls[c].trivial_jobs # {})])]
    /\ UNCHANGED <<queue, concurrency_key, concurrency_counter,
                   parallel_monitor_lock, resume_job, RESTART_ZOMBIE_JOBS,
                   reaper, enterprise>>

\* cancel_jobs, DELETE FROM queue WHERE id = any(trivial_jobs) and
\* tx.commit()
bulk_commit(c) ==
    /\ calls[c].pc = "commit"
    /\ calls[c].kind = "cancel_jobs"
    /\ completed_job' = completed_job @@ calls[c].rows
    /\ queue' = Remove(queue, { j \in calls[c].trivial_jobs \cap DOMAIN queue :
                                  queue[j].workspace_id = calls[c].w_id })
    /\ row_lock' = Unlock(c)
    /\ calls' = [calls EXCEPT ![c] =
          bulk_next([calls[c] EXCEPT
                       !.changed = (calls[c].trivial_jobs # {})])]
    /\ UNCHANGED <<concurrency_key, concurrency_counter,
                   parallel_monitor_lock, resume_job, RESTART_ZOMBIE_JOBS,
                   reaper, enterprise>>

\* cancel_jobs, one iteration of the loop over the ids that were not
\* trivial: the cancellation core in a transaction of its own, given up
\* after 5 s when the row stays locked
bulk_cancel_each(c) ==
    /\ calls[c].pc = "loop"
    /\ LET rest == calls[c].jobs \ (calls[c].trivial_jobs \cup calls[c].core)
           job_id == CHOOSE x \in rest : \A y \in rest : x <= y
           st == cancel_job(Tables, job_id, calls[c].w_id, FALSE, "")
           call == [calls[c] EXCEPT !.core = @ \cup {job_id}]
       IN IF job_id \in DOMAIN row_lock
          THEN /\ UNCHANGED <<queue, completed_job, concurrency_counter>>
               /\ calls' = [calls EXCEPT ![c] = bulk_next(call)]
          ELSE /\ SetTables(st)
               /\ calls' = [calls EXCEPT ![c] =
                     bulk_next([call EXCEPT
                                  !.uuids = @ \cup {job_id},
                                  !.changed = @ \/ st # Tables])]
    /\ UNCHANGED <<concurrency_key, parallel_monitor_lock, resume_job,
                   RESTART_ZOMBIE_JOBS, reaper, row_lock, enterprise>>

InitApi ==
    /\ queue = << >>
    /\ completed_job = << >>
    /\ concurrency_key = << >>
    /\ concurrency_counter = [k \in Keys |-> {}]
    /\ parallel_monitor_lock = {}
    /\ resume_job = {}
    /\ RESTART_ZOMBIE_JOBS = TRUE
    /\ reaper = ReaperIdle
    /\ calls = [c \in Calls |-> IdleRequest]
    /\ row_lock = << >>
    /\ enterprise = FALSE

NextApi ==
    \/ \E j \in JobIds, in \in PushInputs : push(j, in)
    \/ \E j \in JobIds : claim(j)
    \/ \E j \in JobIds, success \in BOOLEAN : complete(j, success)
    \/ \E c \in Calls, j \in JobIds, w \in Workspaces, force \in BOOLEAN :
            cancel_request(c, j, w, force)
    \/ \E c \in Calls : cancel_is_complete(c)
    \/ \E c \in Calls, j \in JobIds, w \in Workspaces :
            get_fetch_completed(c, j, w)
    \/ \E c \in Calls : get_fetch_queued(c)

SpecApi == InitApi /\ [][NextApi]_vars

NextBulk ==
    \/ \E j \in JobIds, in \in PushInputs : push(j, in)
    \/ \E j \in JobIds : claim(j)
    \/ \E j \in JobIds, success \in BOOLEAN : complete(j, success)
    \/ \E c \in Calls, jobs \in SUBSET JobIds \ {{}}, w \in Workspaces :
            bulk_insert(c, jobs, w)
    \/ \E c \in Calls : bulk_commit(c)
    \/ \E c \in Calls : bulk_cancel_each(c)

SpecBulk == InitApi /\ [][NextBulk]_vars

----------------------------------------------------------------------------
(* Flows of several steps under workers and the flow reaper *)

FlowLen == MaxFlowLen + 1

\* status of a flow restarted mid-way: the steps before the restart point
\* are copied as succeeded and the step index points at the restart point
RestartedStatus(n) ==
    <<[step |-> 1,
       modules |-> [i \in 1 .. n |->
                       IF i = 1 THEN Success(NoJob) ELSE WaitingForPriorSteps],
       approval_conditions |-> <<>>]>>

\* inputs of push: flows with a concurrency key and same_worker = false or
\* with no key and same_worker = true, fresh or restarted mid-way
FlowPushInputs ==
    { [job_kind |-> "flow", workspace_id |-> "w1", parent_job |-> NoJob,
       schedule_path |-> FALSE, same_worker |-> sw, scheduled_for |-> "past",
       flow_status |-> st, key |-> IF sw THEN NoKey ELSE "k1"] :
      sw \in BOOLEAN,
      st \in {FreshStatus(FlowLen), RestartedStatus(FlowLen)} }

\* orchestrator step of a running flow: the job of the current module is
\* pushed and the module is in progress; the flow's liveness is refreshed
flow_step_starts(j) ==
    /\ j \in DOMAIN queue
    /\ queue[j].running
    /\ queue[j].flow_status # NoStatus
    /\ LET s == queue[j].flow_status[1] IN
        /\ current_step(s) = <<WaitingForPriorSteps>>
        /\ queue' = [queue EXCEPT
              ![j].flow_status =
                  <<[s EXCEPT !.modules[s.step + 1] = InProgress(NoJob)]>>,
              ![j].last_ping = "fresh"]
    /\ UNCHANGED <<completed_job, concurrency_key, concurrency_counter,
                   parallel_monitor_lock, resume_job, RESTART_ZOMBIE_JOBS,
                   reaper, calls, row_lock, enterprise>>

NextFlows ==
    \/ \E j \in JobIds, in \in FlowPushInputs : push(j, in)
    \/ \E j \in JobIds : claim(j)
    \/ \E j \in JobIds : ping(j)
    \/ \E j \in JobIds : timeout_elapses(j)
    \/ \E j \in JobIds : flow_step_starts(j)
    \/ \E j \in JobIds : flow_transition(j)
    \/ \E j \in JobIds, success \in BOOLEAN : complete(j, success)
    \/ \E j \in JobIds, w \in Workspaces : cancel_job_api(j, w)
    \/ zombie_restart
    \/ timeout_query
    \/ flows_query
    \/ \E flow \in reaper.flows : zombie_flow(flow)
    \/ locks_query
    \/ pass_done

SpecFlows == Init /\ [][NextFlows]_vars

----------------------------------------------------------------------------
(* The reaper when a call to the store or to a service fails *)

\* the task spawned by monitor_f has panicked: its loop is gone and no
\* later pass runs
ReaperDead == [ReaperIdle EXCEPT !.pc = "dead"]

\* handle_zombie_jobs: the restart statement fails; .ok().unwrap_or_else
\* turns the error into an empty list
zombie_restart_fails ==
    /\ reaper.pc = "idle"
    /\ RESTART_ZOMBIE_JOBS
    /\ reaper' = [reaper EXCEPT !.pc = "timeout_query"]
    /\ UNCHANGED <<queue, completed_job, concurrency_key, concurrency_counter,
                   parallel_monitor_lock, resume_job, RESTART_ZOMBIE_JOBS,
                   calls, row_lock, enterprise>>

\* handle_zombie_jobs: timeout_query fails; the error becomes an empty list
timeout_query_fails ==
    /\ reaper.pc = "timeout_query"
    /\ reaper' = [reaper EXCEPT !.pc = "timeouts", !.timeouts = {}]
    /\ UNCHANGED <<queue, completed_job, concurrency_key, concurrency_counter,
                   parallel_monitor_lock, resume_job, RESTART_ZOMBIE_JOBS,
                   calls, row_lock, enterprise>>

\* handle_zombie_jobs: create_token_for_owner fails in an iteration of the
\* loop over timeouts; .expect panics inside the monitor task
create_token_for_owner_fails(j) ==
    /\ reaper.pc = "timeouts"
    /\ j \in reaper.timeouts
    /\ reaper' = ReaperDead
    /\ UNCHANGED <<queue, completed_job, concurrency_key, concurrency_counter,
                   parallel_monitor_lock, resume_job, RESTART_ZOMBIE_JOBS,
                   calls, row_lock, enterprise>>

\* handle_zombie_jobs: handle_job_error fails; its result is dropped and
\* the loop goes on
handle_job_error_fails(j) ==
    /\ reaper.pc = "timeouts"
    /\ j \in reaper.timeouts
    /\ reaper' = [reaper EXCEPT !.timeouts = @ \ {j}]
    /\ UNCHANGED <<queue, completed_job, concurrency_key, concurrency_counter,
                   parallel_monitor_lock, resume_job, RESTART_ZOMBIE_JOBS,
                   calls, row_lock, enterprise>>

\* handle_zombie_flows: the candidate query fails; ? returns the error to
\* monitor_db, which logs it
flows_query_fails ==
    /\ reaper.pc = "timeouts"
    /\ reaper.timeouts = {}
    /\ reaper' = ReaperIdle
    /\ UNCHANGED <<queue, completed_job, concurrency_key, concurrency_counter,
                   parallel_monitor_lock, resume_job, RESTART_ZOMBIE_JOBS,
                   calls, row_lock, enterprise>>

\* handle_zombie_flows: a statement of the iteration over flows fails (the
\* transaction of the restart, now_from_db, cancel_job, the commit); ?
\* returns the error and the open transaction rolls back
zombie_flow_fails(flow) ==
    /\ reaper.pc = "flows"
    /\ flow \in reaper.flows
    /\ reaper' = ReaperIdle
    /\ UNCHANGED <<queue, completed_job, concurrency_key, concurrency_counter,
                   parallel_monitor_lock, resume_job, RESTART_ZOMBIE_JOBS,
                   calls, row_lock, enterprise>>

\* cancel_zombie_flow_job: db.begin() fails; .unwrap panics inside the
\* monitor task
cancel_zombie_flow_job_panics(flow) ==
    /\ reaper.pc = "flows"
    /\ flow \in reaper.flows
    /\ ~never_started(flow)
    /\ reaper' = ReaperDead
    /\ UNCHANGED <<queue, completed_job, concurrency_key, concurrency_counter,
                   parallel_monitor_lock, resume_job, RESTART_ZOMBIE_JOBS,
                   calls, row_lock, enterprise>>

\* handle_zombie_flows: the DELETE on parallel_monitor_lock fails
locks_query_fails ==
    /\ reaper.pc = "flows"
    /\ reaper.flows = {}
    /\ reaper' = ReaperIdle
    /\ UNCHANGED <<queue, completed_job, concurrency_key, concurrency_counter,
                   parallel_monitor_lock, resume_job, RESTART_ZOMBIE_JOBS,
                   calls, row_lock, enterprise>>

\* handle_zombie_flows: a statement of the iteration over flows2 fails; the
\* rows deleted by the DELETE stay deleted
zombie_lock_fails(l) ==
    /\ reaper.pc = "locks"
    /\ l \in reaper.locks
    /\ reaper' = ReaperIdle
    /\ UNCHANGED <<queue, completed_job, concurrency_key, concurrency_counter,
                   parallel_monitor_lock, resume_job, RESTART_ZOMBIE_JOBS,
                   calls, row_lock, enterprise>>

NextFaults ==
    \/ \E j \in JobIds, in \in PushInputs : push(j, in)
    \/ \E j \in JobIds : claim(j)
    \/ \E j \in JobIds : timeout_elapses(j)
    \/ \E j \in JobIds, success \in BOOLEAN : complete(j, success)
    \/ \E f \in JobIds, j \in JobIds : lock_branch(f, j)
    \/ \E l \in parallel_monitor_lock : lock_goes_stale(l)
    \/ zombie_restart
    \/ zombie_restart_fails
    \/ timeout_query
    \/ timeout_query_fails
    \/ \E j \in JobIds : timeout_job(j)
    \/ \E j \in JobIds : create_token_for_owner_fails(j)
    \/ \E j \in JobIds : handle_job_error_fails(j)
    \/ flows_query
    \/ flows_query_fails
    \/ \E flow \in reaper.flows : zombie_flow(flow)
    \/ \E flow \in reaper.flows : zombie_flow_fails(flow)
    \/ \E flow \in reaper.flows : cancel_zombie_flow_job_panics(flow)
    \/ locks_query
    \/ locks_query_fails
    \/ \E l \in reaper.locks : zombie_lock(l)
    \/ \E l \in reaper.locks : zombie_lock_fails(l)
    \/ pass_done

SpecFaults == Init /\ [][NextFaults]_vars

----------------------------------------------------------------------------
(* Waiting for the result of a job (jobs.rs) *)

\* settings read at start-up: TIMEOUT_WAIT_RESULT (seconds, optional) and
\* the three WAIT_RESULT_* poll settings (milliseconds, seconds,
\* milliseconds), any u64 or u16 the environment holds
WaitSettings ==
    [TIMEOUT_WAIT_RESULT : { <<>>, <<0>>, <<1>>, <<3>> },
     WAIT_RESULT_FAST_POLL_INTERVAL_MS : {0, 50, 1500},
     WAIT_RESULT_FAST_POLL_DURATION_SECS : {0, 2},
     WAIT_RESULT_SLOW_POLL_INTERVAL_MS : {200, 60000}]

\* the state of one call of run_wait_result_internal: its locals, the
\* Guard g ("none" before it is built, then "armed" or "done"), the number
\* of cancel tasks spawned by Guard::drop and the state of the task
WaitCall(settings) ==
    [pc |-> "timeout_read", kind |-> "wait", job_id |-> 1, w_id |-> "w1",
     settings |-> settings,
     timeout |-> 0, timeout_ms |-> 0, g |-> "none",
     accumulated_delay |-> 0, delay |-> 0, slept |-> 0,
     result |-> <<>>, success |-> FALSE, error |-> "",
     spawned |-> 0, cancel_f |-> "none"]

WaitInFlight(c) == calls[c].pc \in {"timeout_read", "poll", "sleep"}

\* Guard::drop: an armed guard spawns the cancel task
drop_guard(call) ==
    IF call.g = "armed"
    THEN [call EXCEPT !.spawned = @ + 1, !.cancel_f = "spawned"]
    ELSE call

\* run_wait_result_internal up to the loop: the timeout setting is read
\* (600 when unset), 0 becomes 2000 ms, and the guard is built
wait_begin(c) ==
    /\ calls[c].pc = "timeout_read"
    /\ LET opt == calls[c].settings.TIMEOUT_WAIT_RESULT
           timeout == IF opt = <<>> THEN 600 ELSE opt[1]
       IN calls' = [calls EXCEPT ![c] =
             [@ EXCEPT !.pc = "poll",
                       !.timeout = timeout,
                       !.timeout_ms = IF timeout <= 0 THEN 2000
                                      ELSE timeout * 1000,
                       !.g = "armed",
                       !.accumulated_delay = 0]]
    /\ UNCHANGED <<queue, completed_job, concurrency_key, concurrency_counter,
                   parallel_monitor_lock, resume_job, RESTART_ZOMBIE_JOBS,
                   reaper, row_lock, enterprise>>

\* one iteration of the loop with the guard left armed on a result
wait_poll_StaysArmed(c) ==
    /\ calls[c].pc = "poll"
    /\ LET call == calls[c]
           j == call.job_id
           row == j \in DOMAIN completed_job
                      /\ completed_job[j].workspace_id = call.w_id
           found == row /\ completed_job[j].result # "null"
           fast_poll_duration ==
               call.settings.WAIT_RESULT_FAST_POLL_DURATION_SECS * 1000
           delay == IF call.accumulated_delay <= fast_poll_duration
                    THEN call.settings.WAIT_RESULT_FAST_POLL_INTERVAL_MS
                    ELSE call.settings.WAIT_RESULT_SLOW_POLL_INTERVAL_MS
           accumulated == call.accumulated_delay + delay
       IN calls' = [calls EXCEPT ![c] =
             IF found
             THEN drop_guard([call EXCEPT
                     !.pc = "returned",
                     !.result = <<j>>,
                     !.success = completed_job[j].success])
             ELSE IF accumulated > call.timeout_ms
             THEN drop_guard([call EXCEPT
                     !.pc = "failed",
                     !.accumulated_delay = accumulated,
                     !.error = "timeout"])
             ELSE [call EXCEPT !.pc = "sleep",
                               !.accumulated_delay = accumulated,
                               !.delay = delay]]
    /\ UNCHANGED <<queue, completed_job, concurrency_key, concurrency_counter,
                   parallel_monitor_lock, resume_job, RESTART_ZOMBIE_JOBS,
                   reaper, row_lock, enterprise>>

\* one iteration of the loop: the terminal row is looked up; with a result
\* the guard is disarmed and the call returns; without one the delay is
\* added, and the call fails with a timeout when the sum is past
\* timeout_ms and sleeps for the delay otherwise
wait_poll(c) ==
    /\ calls[c].pc = "poll"
    /\ LET call == calls[c]
           j == call.job_id
           row == j \in DOMAIN completed_job
                      /\ completed_job[j].workspace_id = call.w_id
           found == row /\ completed_job[j].result # "null"
           fast_poll_duration ==
               call.settings.WAIT_RESULT_FAST_POLL_DURATION_SECS * 1000
           delay == IF call.accumulated_delay <= fast_poll_duration
                    THEN call.settings.WAIT_RESULT_FAST_POLL_INTERVAL_MS
                    ELSE call.settings.WAIT_RESULT_SLOW_POLL_INTERVAL_MS
           accumulated == call.accumulated_delay + delay
       IN calls' = [calls EXCEPT ![c] =
             IF found
             THEN drop_guard([call EXCEPT
                     !.pc = "returned",
                     !.g = "done",
                     !.result = <<j>>,
                     !.success = completed_job[j].success])
             ELSE IF accumulated > call.timeout_ms
             THEN drop_guard([call EXCEPT
                     !.pc = "failed",
                     !.accumulated_delay = accumulated,
                     !.error = "timeout"])
             ELSE [call EXCEPT !.pc = "sleep",
                               !.accumulated_delay = accumulated,
                               !.delay = delay]]
    /\ UNCHANGED <<queue, completed_job, concurrency_key, concurrency_counter,
                   parallel_monitor_lock, resume_job, RESTART_ZOMBIE_JOBS,
                   reaper, row_lock, enterprise>>

\* delete_completed_job: an admin erases args, logs and result of a terminal
\* row, which stays in the table with result = null
delete_completed_job(j, w_id) ==
    /\ j \in DOMAIN completed_job
    /\ completed_job[j].workspace_id = w_id
    /\ completed_job' = [completed_job EXCEPT ![j].result = "null"]
    /\ UNCHANGED <<queue, concurrency_key, concurrency_counter,
                   parallel_monitor_lock, resume_job, RESTART_ZOMBIE_JOBS,
                   reaper, calls, row_lock, enterprise>>

\* the lookup of an iteration fails: ? returns the store error
wait_poll_fails(c) ==
    /\ calls[c].pc = "poll"
    /\ calls' = [calls EXCEPT ![c] =
          drop_guard([@ EXCEPT !.pc = "failed", !.error = "store"])]
    /\ UNCHANGED <<queue, completed_job, concurrency_key, concurrency_counter,
                   parallel_monitor_lock, resume_job, RESTART_ZOMBIE_JOBS,
                   reaper, row_lock, enterprise>>

\* tokio::time::sleep(delay) is over
wait_wakes(c) ==
    /\ calls[c].pc = "sleep"
    /\ calls' = [calls EXCEPT ![c] =
          [@ EXCEPT !.pc = "poll", !.slept = @ + calls[c].delay]]
    /\ UNCHANGED <<queue, completed_job, concurrency_key, concurrency_counter,
                   parallel_monitor_lock, resume_job, RESTART_ZOMBIE_JOBS,
                   reaper, row_lock, enterprise>>

\* the caller disconnects: the future of the handler is dropped at the
\* await it is suspended in, and its locals with it
disconnect(c) ==
    /\ WaitInFlight(c)
    /\ calls' = [calls EXCEPT ![c] =
          drop_guard([@ EXCEPT !.pc = "dropped"])]
    /\ UNCHANGED <<queue, completed_job, concurrency_key, concurrency_counter,
                   parallel_monitor_lock, resume_job, RESTART_ZOMBIE_JOBS,
                   reaper, row_lock, enterprise>>

\* the task spawned by Guard::drop: cancel_job in its own transaction
guard_cancel(c) ==
    /\ calls[c].cancel_f = "spawned"
    /\ SetTables(cancel_job(Tables, calls[c].job_id, calls[c].w_id, FALSE,
                            "http connection broke"))
    /\ calls' = [calls EXCEPT ![c].cancel_f = "committed"]
    /\ UNCHANGED <<concurrency_key, parallel_monitor_lock, resume_job,
                   RESTART_ZOMBIE_JOBS, reaper, row_lock, enterprise>>

\* the task spawned by Guard::drop fails: the error is logged
guard_cancel_fails(c) ==
    /\ calls[c].cancel_f = "spawned"
    /\ calls' = [calls EXCEPT ![c].cancel_f = "failed"]
    /\ UNCHANGED <<queue, completed_job, concurrency_key, concurrency_counter,
                   parallel_monitor_lock, resume_job, RESTART_ZOMBIE_JOBS,
                   reaper, row_lock, enterprise>>

\* the caller has pushed the job it waits for
InitWait ==
    /\ queue = (1 :> NewRow(CHOOSE in \in PushInputs :
                               in.job_kind = "script" /\ in.key = NoKey))
    /\ completed_job = << >>
    /\ concurrency_key = << >>
    /\ concurrency_counter = [k \in Keys |-> {}]
    /\ parallel_monitor_lock = {}
    /\ resume_job = {}
    /\ RESTART_ZOMBIE_JOBS = FALSE
    /\ reaper = ReaperIdle
    /\ \E settings \in WaitSettings : calls = <<WaitCall(settings)>>
    /\ row_lock = << >>
    /\ enterprise = FALSE

WaitStep(c) ==
    \/ wait_begin(c)
    \/ wait_poll(c)
    \/ wait_wakes(c)

NextWait ==
    \/ \E c \in DOMAIN calls : wait_begin(c)
    \/ \E c \in DOMAIN calls : wait_poll(c)
    \/ \E c \in DOMAIN calls : wait_poll_fails(c)
    \/ \E c \in DOMAIN calls : wait_wakes(c)
    \/ \E c \in DOMAIN calls : disconnect(c)
    \/ \E c \in DOMAIN calls : guard_cancel(c)
    \/ \E c \in DOMAIN calls : guard_cancel_fails(c)
    \/ \E j \in JobIds : claim(j)
    \/ \E j \in JobIds, success \in BOOLEAN : complete(j, success)

SpecWait == InitWait /\ [][NextWait]_vars

\* the result wait while terminal rows can be erased by delete_completed_job
NextWaitDeleted ==
    \/ \E c \in DOMAIN calls : wait_begin(c)
    \/ \E c \in DOMAIN calls : wait_poll(c)
    \/ \E c \in DOMAIN calls : wait_poll_fails(c)
    \/ \E c \in DOMAIN calls : wait_wakes(c)
    \/ \E c \in DOMAIN calls : disconnect(c)
    \/ \E c \in DOMAIN calls : guard_cancel(c)
    \/ \E c \in DOMAIN calls : guard_cancel_fails(c)
    \/ \E j \in JobIds : claim(j)
    \/ \E j \in JobIds, success \in BOOLEAN : complete(j, success)
    \/ \E j \in JobIds, w \in Workspaces : delete_completed_job(j, w)

SpecWaitDeleted == InitWait /\ [][NextWaitDeleted]_vars

\* the runtime keeps running a call that can take a step
SpecWaitFair ==
    SpecWait /\ \A c \in {1} : WF_vars(WaitStep(c))

----------------------------------------------------------------------------
(* The HTTP response built from a result (jobs.rs, run_wait_result) *)

\* values a job can put in windmill_status_code, u16 or not
StatusCodeValues == {-1, 0, 99, 100, 200, 204, 404, 999, 1000, 65535, 65536}

\* results of jobs as JSON: a value that is not an object, or an object
\* whose four fields are absent (<<>>) or present; a header map and a
\* content type are the text "ok" or a text no HTTP header can hold
JsonResults ==
    [is_object : BOOLEAN,
     windmill_status_code : {<<>>} \cup { <<n>> : n \in StatusCodeValues },
     windmill_content_type : { <<>>, <<"ok">>, <<"bad">> },
     windmill_headers : { <<>>, <<"ok">>, <<"bad">> },
     result : { <<>>, <<"value">> }]

\* serde_json::from_str::<WindmillCompositeResult>: <<>> for a value that
\* does not deserialize (not an object, or a status code that is no u16)
from_str(json) ==
    IF ~json.is_object THEN <<>>
    ELSE IF /\ json.windmill_status_code # <<>>
            /\ json.windmill_status_code[1] \notin 0 .. 65535
         THEN <<>>
         ELSE <<json>>

\* StatusCode::from_u16: the codes 100 .. 999
from_u16(val) == IF val \in 100 .. 999 THEN <<val>> ELSE <<>>

Response(status) == [error |-> "", status |-> status]
Failure(error) == [error |-> error, status |-> 0]

\* the status, or the error, of the response of run_wait_result
status(json, success) ==
    LET plain == Response(IF success THEN 200 ELSE 500)
        composite_result == from_str(json)
    IN IF composite_result = <<>> THEN plain
       ELSE LET r == composite_result[1] IN
            IF /\ r.windmill_content_type = <<>>
               /\ r.windmill_status_code = <<>>
               /\ r.windmill_headers = <<>>
            THEN plain
            ELSE IF /\ r.windmill_status_code # <<>>
                    /\ from_u16(r.windmill_status_code[1]) = <<>>
            THEN Failure("Invalid status code")
            ELSE IF r.windmill_headers = <<"bad">>
            THEN Failure("Invalid header")
            ELSE IF r.windmill_content_type = <<"bad">>
            THEN Failure("Invalid content type")
            ELSE Response(
                    IF r.windmill_status_code # <<>>
                    THEN r.windmill_status_code[1]
                    ELSE IF ~success THEN 500
                    ELSE IF r.result # <<>> THEN 200
                    ELSE 204)

\* run_wait_result has the result of the job in hand
InitResponse ==
    /\ queue = << >>
    /\ completed_job = << >>
    /\ concurrency_key = << >>
    /\ concurrency_counter = [k \in Keys |-> {}]
    /\ parallel_monitor_lock = {}
    /\ resume_job = {}
    /\ RESTART_ZOMBIE_JOBS = FALSE
    /\ reaper = ReaperIdle
    /\ \E json \in JsonResults, success \in BOOLEAN :
          calls = <<[pc |-> "result", kind |-> "response", json |-> json,
                     success |-> success, response |-> Response(0)]>>
    /\ row_lock = << >>
    /\ enterprise = FALSE

run_wait_result(c) ==
    /\ calls[c].pc = "result"
    /\ calls' = [calls EXCEPT ![c] =
          [@ EXCEPT !.pc = "responded",
                    !.response = status(calls[c].json, calls[c].success)]]
    /\ UNCHANGED <<queue, completed_job, concurrency_key, concurrency_counter,
                   parallel_monitor_lock, resume_job, RESTART_ZOMBIE_JOBS,
                   reaper, row_lock, enterprise>>

NextResponse == \E c \in DOMAIN calls : run_wait_result(c)

SpecResponse == InitResponse /\ [][NextResponse]_vars

----------------------------------------------------------------------------
(* Push requests of the API and the tag check                              *)

Some(x) == <<x>>

\* tags a request, a flow or a terminal row can carry
Tags == {"", "gpu", "ws", "other"}

\* windmill_common::worker::CUSTOM_TAGS_PER_WORKSPACE: the custom tags every
\* workspace may use, and the custom tags reserved to listed workspaces
CUSTOM_TAGS_PER_WORKSPACE ==
    [global |-> {"gpu"}, per_workspace |-> [t \in {"ws"} |-> {"w1"}]]

\* users::get_scope_tags of the callers of the model: no "if_jobs:filter_tags"
\* scope (None), or a token restricted to the listed tags
ScopeTagsInputs == {<< >>, Some({"gpu"}), Some({"ws", "other"})}

check_tag_available_for_workspace(w_id, tag, scope_tags) ==
    IF tag = << >> THEN "Ok"
    ELSE IF tag[1] = "" THEN "Ok"
    ELSE IF scope_tags # << >> /\ tag[1] \notin scope_tags[1] THEN "BadRequest"
    ELSE IF tag[1] \in CUSTOM_TAGS_PER_WORKSPACE.global THEN "Ok"
    ELSE IF /\ tag[1] \in DOMAIN CUSTOM_TAGS_PER_WORKSPACE.per_workspace
            /\ w_id \in CUSTOM_TAGS_PER_WORKSPACE.per_workspace[tag[1]]
         THEN "Ok"
    ELSE "BadRequest"

\* push requests: run_flow_by_path on a flow whose row carries stored_tag,
\* restart_flow on a terminal flow whose row carries stored_tag,
\* run_workflow_as_code from pending job job_id, of tag job_tag, whose script
\* carries stored_tag
PushCalls ==
    [pc : {"start"},
     kind : {"run_flow_by_path", "restart_flow", "run_workflow_as_code"},
     w_id : Workspaces, job_id : {1},
     query_tag : {<< >>} \cup {Some(t) : t \in Tags},
     stored_tag : {<< >>} \cup {Some(t) : t \in Tags},
     job_tag : {"", "gpu", "other"},
     scope_tags : ScopeTagsInputs,
     tag : {<< >>}, result : {"none"}]

\* the pending job a workflow-as-code task is spawned from
ParentPayload(job_kind, w_id) ==
    [job_kind |-> job_kind, workspace_id |-> w_id, parent_job |-> NoJob,
     schedule_path |-> FALSE, same_worker |-> FALSE, scheduled_for |-> "past",
     flow_status |-> NoStatus, key |-> NoKey]

FlowPayload(w_id) ==
    [job_kind |-> "flow", workspace_id |-> w_id, parent_job |-> NoJob,
     schedule_path |-> FALSE, same_worker |-> FALSE, scheduled_for |-> "past",
     flow_status |-> FreshStatus(MaxFlowLen), key |-> NoKey]

\* the request leaves with a result and the effective tag it resolved
Responds(c, tag, result) ==
    calls' = [calls EXCEPT ![c] =
                 [@ EXCEPT !.pc = "done", !.tag = tag, !.result = result]]

\* push of one job on behalf of request c
push_job(c, tag) ==
    \E j \in JobIds :
        /\ j \notin DOMAIN queue /\ j \notin DOMAIN completed_job
        /\ queue' = queue @@ (j :> NewRow(FlowPayload(calls[c].w_id)))
        /\ Responds(c, tag, "Created")

run_flow_by_path_inner(c) ==
    /\ calls[c].pc = "start"
    /\ calls[c].kind = "run_flow_by_path"
    /\ LET call == calls[c]
           tag == IF call.query_tag # << >> THEN call.query_tag
                                           ELSE call.stored_tag
       IN IF check_tag_available_for_workspace(call.w_id, tag,
                                               call.scope_tags) = "Ok"
          THEN push_job(c, tag)
          ELSE /\ Responds(c, tag, "BadRequest")
               /\ UNCHANGED queue
    /\ UNCHANGED <<completed_job, concurrency_key, concurrency_counter,
                   parallel_monitor_lock, resume_job, RESTART_ZOMBIE_JOBS,
                   reaper, row_lock, enterprise>>

\* restart_flow: the build without the enterprise feature refuses; the
\* enterprise build pushes the restarted flow with the terminal row's tag
restart_flow(c) ==
    /\ calls[c].pc = "start"
    /\ calls[c].kind = "restart_flow"
    /\ calls[c].stored_tag # << >>
    /\ IF enterprise
       THEN push_job(c, calls[c].stored_tag)
       ELSE /\ Responds(c, calls[c].stored_tag, "BadRequest")
            /\ UNCHANGED queue
    /\ UNCHANGED <<completed_job, concurrency_key, concurrency_counter,
                   parallel_monitor_lock, resume_job, RESTART_ZOMBIE_JOBS,
                   reaper, row_lock, enterprise>>

\* the task of a pending preview job runs under that job's tag, the task of
\* a pending script job under the script's tag; the tag of the query is the
\* only one checked
run_workflow_as_code(c) ==
    /\ calls[c].pc = "start"
    /\ calls[c].kind = "run_workflow_as_code"
    /\ LET call == calls[c]
           job_id == call.job_id
       IN IF check_tag_available_for_workspace(call.w_id, call.query_tag,
                                               call.scope_tags) # "Ok"
          THEN /\ Responds(c, call.query_tag, "BadRequest")
               /\ UNCHANGED queue
          ELSE IF job_id \notin DOMAIN queue
                    \/ queue[job_id].workspace_id # call.w_id
          THEN /\ Responds(c, call.query_tag, "NotFound")
               /\ UNCHANGED queue
          ELSE IF queue[job_id].job_kind \notin {"preview", "script"}
          THEN /\ Responds(c, call.query_tag, "InternalErr")
               /\ UNCHANGED queue
          ELSE LET tag == IF queue[job_id].job_kind = "preview"
                             THEN Some(call.job_tag)
                             ELSE call.stored_tag
                   pushed == IF call.query_tag # << >> THEN call.query_tag
                             ELSE IF tag # << >> THEN tag
                             ELSE Some(call.job_tag)
               IN push_job(c, pushed)
    /\ UNCHANGED <<completed_job, concurrency_key, concurrency_counter,
                   parallel_monitor_lock, resume_job, RESTART_ZOMBIE_JOBS,
                   reaper, row_lock, enterprise>>

InitPush ==
    /\ \E job_kind \in {"script", "preview", "flow"} :
          queue = (1 :> NewRow(ParentPayload(job_kind, "w1")))
    /\ completed_job = << >>
    /\ concurrency_key = << >>
    /\ concurrency_counter = [k \in Keys |-> {}]
    /\ parallel_monitor_lock = {}
    /\ resume_job = {}
    /\ RESTART_ZOMBIE_JOBS = FALSE
    /\ reaper = ReaperIdle
    /\ \E call \in PushCalls : calls = <<call>>
    /\ row_lock = << >>
    /\ enterprise \in BOOLEAN

NextPush ==
    \/ \E c \in DOMAIN calls : run_flow_by_path_inner(c)
    \/ \E c \in DOMAIN calls : restart_flow(c)
    \/ \E c \in DOMAIN calls : run_workflow_as_code(c)

SpecPush == InitPush /\ [][NextPush]_vars

----------------------------------------------------------------------------
(* The approval policy under every kind of caller and conditions *)

\* callers: anonymous, or logged in as the user who triggered the flow or as
\* another user, admin or not, member of group g1, of g2 or of no group
ApproverInputs ==
    { <<>> } \cup
    { <<a>> : a \in [email : {"approver@w1", TriggerEmail},
                     is_admin : BOOLEAN,
                     groups : {{}, {"g1"}, {"g2"}}] }

\* approval conditions a flow step can declare
PolicyInputs ==
    { <<>> } \cup
    { <<ac>> : ac \in [user_auth_required : BOOLEAN,
                       self_approval_disabled : BOOLEAN,
                       user_groups_required : {{}, {"g1"}}] }

\* the flow is suspended on its first step job, waiting for one event
InitApproval ==
    /\ \E ac \in PolicyInputs :
         queue =
           (TheFlow :>
              [NewRow([job_kind |-> "flow", workspace_id |-> "w1",
                       parent_job |-> NoJob, schedule_path |-> FALSE,
                       same_worker |-> FALSE, scheduled_for |-> "past",
                       flow_status |->
                          <<[step |-> 0,
                             modules |-> [i \in 1 .. MaxJobs |->
                                            IF i = 1 THEN InProgress(1)
                                            ELSE WaitingForPriorSteps],
                             approval_conditions |-> ac]>>])
               EXCEPT !.running = TRUE, !.started_at = "set",
                      !.last_ping = "fresh"])
           @@ (1 :> StepJobRow(TheFlow))
    /\ completed_job = << >>
    /\ concurrency_key = << >>
    /\ concurrency_counter = [k \in Keys |-> {}]
    /\ parallel_monitor_lock = {}
    /\ resume_job = {}
    /\ RESTART_ZOMBIE_JOBS = TRUE
    /\ reaper = ReaperIdle
    /\ calls = [c \in Calls |-> IdleCall]
    /\ row_lock = << >>
    /\ enterprise \in BOOLEAN

\* a statement of the request fails in the store (the duplicate check, BEGIN,
\* the INSERT, the UPDATE or the audit record): the error returns through
\* '?' and the transaction, if open, is dropped and rolled back
resume_store_fails(c) ==
    /\ calls[c].pc \in {"exists", "insert", "update", "commit"}
    /\ Return(c, "InternalErr")
    /\ row_lock' = Remove(row_lock, {f \in DOMAIN row_lock : row_lock[f] = c})
    /\ UNCHANGED <<queue, completed_job, concurrency_key, concurrency_counter,
                   parallel_monitor_lock, resume_job, RESTART_ZOMBIE_JOBS,
                   reaper, enterprise>>

\* what a caller presents as secret for job 1 and resume id r: the
\* capability issued for them, or the one issued for another resume id
SecretInputs(r) == {Issued(1, r, <<>>), Issued(1, r + 1, <<>>)}

NextApproval ==
    \/ \E c \in Calls, approved \in BOOLEAN, authed \in ApproverInputs :
            resume_begin(c, approved, 1, c - 1, <<>>,
                         Issued(1, c - 1, <<>>), authed)
                /\ OneAtATime
    \/ \E c \in Calls : fetch_completed(c) /\ OneAtATime
    \/ \E c \in Calls : fetch_queued(c) /\ OneAtATime
    \/ \E c \in Calls : resume_exists(c) /\ OneAtATime
    \/ \E c \in Calls : insert_resume_job(c) /\ OneAtATime
    \/ \E c \in Calls : resume_update(c) /\ OneAtATime
    \/ \E c \in Calls : resume_commit(c) /\ OneAtATime
    \/ step_done(TheFlow, 1) /\ OneAtATime
    \/ flow_wakes(TheFlow) /\ OneAtATime

\* requests one at a time with every cause of rejection: a capability that
\* does not verify, a flow that is gone, the approval policy, a resume id
\* used before, a failure of the store
NextReject ==
    \/ \E c \in Calls, approved \in BOOLEAN, r \in ResumeIds,
          authed \in AuthedInputs :
            \E secret \in SecretInputs(r) :
                resume_begin(c, approved, 1, r, <<>>, secret, authed)
                    /\ OneAtATime
    \/ \E c \in Calls : fetch_completed(c) /\ OneAtATime
    \/ \E c \in Calls : fetch_queued(c) /\ OneAtATime
    \/ \E c \in Calls : resume_exists(c) /\ OneAtATime
    \/ \E c \in Calls : insert_resume_job(c) /\ OneAtATime
    \/ \E c \in Calls : resume_update(c) /\ OneAtATime
    \/ \E c \in Calls : resume_commit(c) /\ OneAtATime
    \/ \E c \in Calls : resume_store_fails(c) /\ OneAtATime
    \/ \E required \in 1 .. MaxSuspend :
            step_done(TheFlow, required) /\ OneAtATime
    \/ flow_wakes(TheFlow) /\ OneAtATime

SpecReject == InitResume /\ [][NextReject]_vars

SpecApproval == InitApproval /\ [][NextApproval]_vars

----------------------------------------------------------------------------
(* The monitor task of the server (main.rs)                                *)

\* the sleep of 30 seconds, in ticks of the model's clock
SleepTicks == 2
\* notifications the listener holds at most before they are received
MaxPending == 2

\* what listener.recv() yields: a notification of one of the two channels
\* the task handles, of another channel, or an error of the connection
Notifications ==
    {"notify_config_change", "notify_global_setting_change", "unknown", "Err"}

\* the monitor task at the top of its loop: tokio::select! has created a new
\* sleep, of which elapsed ticks have passed
MonitorTask(elapsed) ==
    [pc |-> "select", kind |-> "monitor", elapsed |-> elapsed,
     listener |-> << >>, notification |-> "none"]

\* the store notifies the listener
notify(c, n) ==
    /\ calls[c].pc # "exited"
    /\ Len(calls[c].listener) < MaxPending
    /\ calls' = [calls EXCEPT ![c].listener = Append(@, n)]
    /\ UNCHANGED <<queue, completed_job, concurrency_key, concurrency_counter,
                   parallel_monitor_lock, resume_job, RESTART_ZOMBIE_JOBS,
                   reaper, row_lock, enterprise>>

\* time passes while the task waits in the select
tick(c) ==
    /\ calls[c].pc = "select"
    /\ calls[c].elapsed < SleepTicks
    /\ calls' = [calls EXCEPT ![c].elapsed = @ + 1]
    /\ UNCHANGED <<queue, completed_job, concurrency_key, concurrency_counter,
                   parallel_monitor_lock, resume_job, RESTART_ZOMBIE_JOBS,
                   reaper, row_lock, enterprise>>

\* first branch of either select: the killpill
monitor_killpill(c) ==
    /\ calls[c].pc \in {"select", "reconnect"}
    /\ calls' = [calls EXCEPT ![c].pc = "exited"]
    /\ UNCHANGED <<queue, completed_job, concurrency_key, concurrency_counter,
                   parallel_monitor_lock, resume_job, RESTART_ZOMBIE_JOBS,
                   reaper, row_lock, enterprise>>

\* second branch: the sleep of this iteration has elapsed, monitor_db starts
sleep_elapsed(c) ==
    /\ calls[c].pc = "select"
    /\ calls[c].elapsed = SleepTicks
    /\ calls' = [calls EXCEPT ![c].pc = "monitor_db"]
    /\ UNCHANGED <<queue, completed_job, concurrency_key, concurrency_counter,
                   parallel_monitor_lock, resume_job, RESTART_ZOMBIE_JOBS,
                   reaper, row_lock, enterprise>>

\* the next iteration of the loop: the select creates its sleep anew
loop(call) ==
    [call EXCEPT !.pc = "select", !.elapsed = 0, !.notification = "none"]

\* monitor_db returns (zombie jobs and flows included) and the loop goes on
monitor_db(c) ==
    /\ calls[c].pc = "monitor_db"
    /\ calls' = [calls EXCEPT ![c] = loop(@)]
    /\ UNCHANGED <<queue, completed_job, concurrency_key, concurrency_counter,
                   parallel_monitor_lock, resume_job, RESTART_ZOMBIE_JOBS,
                   reaper, row_lock, enterprise>>

\* third branch, polled after the sleep (biased): listener.recv() yields; an
\* unknown channel continues the loop at once, an error starts a reconnection
listener_recv(c) ==
    /\ calls[c].pc = "select"
    /\ calls[c].elapsed < SleepTicks
    /\ calls[c].listener # << >>
    /\ LET n == Head(calls[c].listener)
           call == [calls[c] EXCEPT !.listener = Tail(@)]
       IN calls' = [calls EXCEPT ![c] =
             IF n = "unknown" THEN loop(call)
             ELSE IF n = "Err"
                  THEN [call EXCEPT !.pc = "reconnect", !.listener = << >>]
             ELSE [call EXCEPT !.pc = "notification", !.notification = n]]
    /\ UNCHANGED <<queue, completed_job, concurrency_key, concurrency_counter,
                   parallel_monitor_lock, resume_job, RESTART_ZOMBIE_JOBS,
                   reaper, row_lock, enterprise>>

\* the configuration or the setting named by the notification is reloaded
notification_handled(c) ==
    /\ calls[c].pc = "notification"
    /\ calls' = [calls EXCEPT ![c] = loop(@)]
    /\ UNCHANGED <<queue, completed_job, concurrency_key, concurrency_counter,
                   parallel_monitor_lock, resume_job, RESTART_ZOMBIE_JOBS,
                   reaper, row_lock, enterprise>>

\* retry_listen_pg returns a new listener
listener_reconnected(c) ==
    /\ calls[c].pc = "reconnect"
    /\ calls' = [calls EXCEPT ![c] = loop(@)]
    /\ UNCHANGED <<queue, completed_job, concurrency_key, concurrency_counter,
                   parallel_monitor_lock, resume_job, RESTART_ZOMBIE_JOBS,
                   reaper, row_lock, enterprise>>

InitMonitor ==
    /\ queue = << >>
    /\ completed_job = << >>
    /\ concurrency_key = << >>
    /\ concurrency_counter = [k \in Keys |-> {}]
    /\ parallel_monitor_lock = {}
    /\ resume_job = {}
    /\ RESTART_ZOMBIE_JOBS \in BOOLEAN
    /\ reaper = ReaperIdle
    /\ calls = <<MonitorTask(0)>>
    /\ row_lock = << >>
    /\ enterprise = FALSE

\* the steps of the task itself
MonitorStep(c) ==
    \/ sleep_elapsed(c)
    \/ monitor_db(c)
    \/ listener_recv(c)
    \/ notification_handled(c)
    \/ listener_reconnected(c)

NextMonitor ==
    \/ \E c \in DOMAIN calls, n \in Notifications : notify(c, n)
    \/ \E c \in DOMAIN calls : tick(c)
    \/ \E c \in DOMAIN calls : monitor_killpill(c)
    \/ \E c \in DOMAIN calls : MonitorStep(c)

SpecMonitor == InitMonitor /\ [][NextMonitor]_vars

\* the task is scheduled whenever it can move, and the clock advances again
\* and again while the task waits
SpecMonitorFair ==
    /\ SpecMonitor
    /\ \A c \in {1} : WF_vars(MonitorStep(c)) /\ SF_vars(tick(c))

----------------------------------------------------------------------------
(* The reaper over every job kind                                          *)

\* one pushed job of each kind the two reaper checks name or leave to the
\* other: plain kinds, and the kinds the script queries list as flow-like
KindPushInputs ==
    { [job_kind |-> k, workspace_id |-> "w1", parent_job |-> NoJob,
       schedule_path |-> FALSE, same_worker |-> sw, scheduled_for |-> "past",
       flow_status |-> IF k \in FlowLikeKinds THEN FreshStatus(MaxFlowLen)
                                              ELSE NoStatus,
       key |-> NoKey] :
      k \in {"script", "preview"} \cup FlowLikeKinds, sw \in BOOLEAN }

NextKinds ==
    \/ \E j \in JobIds, in \in KindPushInputs : push(j, in)
    \/ \E j \in JobIds : claim(j)
    \/ \E j \in JobIds : ping(j)
    \/ \E j \in JobIds : timeout_elapses(j)
    \/ \E j \in JobIds, success \in BOOLEAN : complete(j, success)
    \/ zombie_restart
    \/ timeout_query
    \/ \E j \in JobIds : timeout_job(j)
    \/ flows_query
    \/ \E flow \in reaper.flows : zombie_flow(flow)
    \/ locks_query
    \/ pass_done

SpecKinds == Init /\ [][NextKinds]_vars

----------------------------------------------------------------------------
(* Properties of the job queue *)

ReaperStep == reaper' # reaper

\* C1: a job id that has been pushed is in exactly one of queue and
\* completed_job: the two tables never share an id, and no step makes an id
\* of either table leave both.
C1_ExactlyOneTable ==
    /\ [](DOMAIN queue \cap DOMAIN completed_job = {})
    /\ [][\A j \in DOMAIN queue \cup DOMAIN completed_job :
             /\ j \in DOMAIN queue' \cup DOMAIN completed_job'
             /\ ~(j \in DOMAIN queue' /\ j \in DOMAIN completed_job')]_vars

\* a bulk or single cancel of a pending job has produced a canceled terminal
\* row while another job is still pending
C1_Witness ==
    \E j \in DOMAIN completed_job, i \in DOMAIN queue :
        /\ completed_job[j].canceled
        /\ j \notin DOMAIN queue
        /\ i # j

\* C2: with restart-zombies enabled, every stale running script job with
\* same_worker = false is, after the restart statement of the pass, not
\* running, has no started_at, and is in no concurrency counter's set.
C2_RestartReleasesEveryCounter ==
    [][(reaper.pc = "idle" /\ reaper'.pc = "timeout_query"
            /\ RESTART_ZOMBIE_JOBS)
       => \A j \in zombie_jobs(queue) :
             /\ j \in DOMAIN queue'
             /\ ~queue'[j].running
             /\ queue'[j].started_at = "null"
             /\ \A k \in DOMAIN concurrency_counter' :
                   j \notin concurrency_counter'[k]]_vars

\* C3: no reaper step sets running to false on a same_worker job; a reaper
\* step leaves such a row as it is or moves it to completed_job as not
\* successful.
C3_SameWorkerNeverRestarted ==
    [][ReaperStep =>
        \A j \in DOMAIN queue :
            (queue[j].same_worker /\ queue[j].running) =>
                \/ /\ j \in DOMAIN queue'
                   /\ queue'[j] = queue[j]
                \/ /\ j \notin DOMAIN queue'
                   /\ j \in DOMAIN completed_job'
                   /\ ~completed_job'[j].success]_vars

\* the flow loop of the reaper holds a stale same_worker flow whose first
\* module is still WaitingForPriorSteps, and a stale same_worker script is
\* still running after the restart statement
C3_Witness ==
    /\ reaper.pc = "flows"
    /\ \E flow \in reaper.flows :
          /\ flow.same_worker
          /\ modules_get(flow.flow_status[1], 0)[1].type = "WaitingForPriorSteps"
          /\ flow.id \in DOMAIN queue
          /\ queue[flow.id].running
----------------------------------------------------------------------------
(* Properties of the suspend/resume coordinator *)

Accepted(c) == calls[c].pc = "done" /\ calls[c].result = "201"

\* the current module of a queue row when it is WaitingForEvents, else <<>>
WaitingOn(row) ==
    IF row.flow_status = NoStatus THEN <<>>
    ELSE LET cur == current_step(row.flow_status[1]) IN
         IF cur # <<>> /\ cur[1].type = "WaitingForEvents" THEN cur ELSE <<>>

\* the request read the flow while it was waiting on the request's job
ReadWhileWaiting(c) ==
    /\ calls[c].flow # <<>>
    /\ WaitingOn(calls[c].flow[1]) # <<>>
    /\ WaitingOn(calls[c].flow[1])[1].job = calls[c].job_id

\* C4: the suspend counter of every queue row is never negative.
C4_SuspendNeverNegative ==
    \A j \in DOMAIN queue : queue[j].suspend >= 0

\* an approval was accepted that had read suspend = 0 on the flow waiting on
\* its job, and an approval was accepted that had read suspend = 1
C4_Witness ==
    /\ TheFlow \in DOMAIN queue
    /\ queue[TheFlow].suspend = 0
    /\ \E c \in Calls :
          /\ Accepted(c) /\ calls[c].approved /\ ReadWhileWaiting(c)
          /\ calls[c].flow[1].suspend = 0
    /\ \E c \in Calls :
          /\ Accepted(c) /\ calls[c].approved /\ ReadWhileWaiting(c)
          /\ calls[c].flow[1].suspend = 1

\* C5: two resume approvals with distinct resume ids that both read the flow
\* waiting on their job with suspend = N >= 2 both take effect: once both
\* are committed, and the flow still waits on that job with no rejection
\* received, suspend is at most N - 2.
C5_ConcurrentApprovalsBothCount ==
    \A c, d \in Calls :
        ( /\ c # d
          /\ Accepted(c) /\ Accepted(d)
          /\ calls[c].kind = "resume" /\ calls[d].kind = "resume"
          /\ calls[c].approved /\ calls[d].approved
          /\ calls[c].job_id = calls[d].job_id
          /\ calls[c].resume_id # calls[d].resume_id
          /\ ReadWhileWaiting(c) /\ ReadWhileWaiting(d)
          /\ calls[c].flow[1].suspend = calls[d].flow[1].suspend
          /\ calls[c].flow[1].suspend >= 2
          /\ calls[c].flow[1].id \in DOMAIN queue
          /\ WaitingOn(queue[calls[c].flow[1].id]) # <<>>
          /\ WaitingOn(queue[calls[c].flow[1].id])[1].job = calls[c].job_id
          /\ \A r \in ResumesOf(calls[c].job_id) : r.approved )
        => queue[calls[c].flow[1].id].suspend <= calls[c].flow[1].suspend - 2

\* C6: with requests applied one after another, a flow waiting on job J
\* for n events, none of whose steps received a rejection, has suspend = n
\* minus the number of approvals recorded for J (0 once n or more are
\* recorded): each accepted approval takes exactly one off, and suspend is 0
\* only from the n-th approval on.
C6_EachApprovalTakesOneOff ==
    \A f \in DOMAIN queue :
        LET w == WaitingOn(queue[f]) IN
        (w # <<>> /\ \A r \in resume_job : r.flow = f => r.approved)
        => LET left == w[1].count - Cardinality(ResumesOf(w[1].job)) IN
           queue[f].suspend = IF left > 0 THEN left ELSE 0

\* the flow waits for two events, both approvals have been accepted after
\* the wait began, and suspend is 0
C6_Witness ==
    /\ TheFlow \in DOMAIN queue
    /\ WaitingOn(queue[TheFlow]) # <<>>
    /\ WaitingOn(queue[TheFlow])[1].count = 2
    /\ queue[TheFlow].suspend = 0
    /\ \E c, d \in Calls :
          /\ Accepted(c) /\ Accepted(d) /\ calls[c].approved /\ calls[d].approved
          /\ ReadWhileWaiting(c) /\ ReadWhileWaiting(d)
          /\ calls[c].flow[1].suspend = 2
          /\ calls[d].flow[1].suspend = 1
          /\ calls[c].job_id = WaitingOn(queue[TheFlow])[1].job
          /\ calls[d].job_id = calls[c].job_id

\* request c repeats the accepted request d: same job, resume id and caller,
\* through resume or cancel_suspended (requests start in the order of Calls)
Repeats(c, d) ==
    /\ d < c
    /\ Accepted(d)
    /\ calls[c].pc = "done"
    /\ calls[c].kind \in {"resume", "cancel"}
    /\ calls[d].kind \in {"resume", "cancel"}
    /\ calls[c].job_id = calls[d].job_id
    /\ calls[c].resume_id = calls[d].resume_id
    /\ calls[c].authed = calls[d].authed

\* C7 as stated: the repeat of an accepted request fails with "already
\* sent", whatever state the flow has reached.
C7_RepeatAlwaysAlreadySent ==
    \A c, d \in Calls :
        Repeats(c, d) => calls[c].result = "resume request already sent"

\* C7 amended: the repeat of an accepted request is never accepted; it fails
\* with "already sent" when the owning flow is still in the pending table,
\* and with "parent flow job not found" when the flow has left it.
C7_RepeatRejected ==
    \A c, d \in Calls :
        Repeats(c, d) =>
            calls[c].result =
                IF calls[c].flow # <<>>
                THEN "resume request already sent"
                ELSE "parent flow job not found"

\* a repeat was answered "already sent" after the flow had moved on to its
\* next module
C7_Witness ==
    \E c, d \in Calls :
        /\ Repeats(c, d)
        /\ calls[c].result = "resume request already sent"
        /\ calls[c].flow[1].flow_status[1].step > calls[d].flow[1].flow_status[1].step

\* C8: of the requests carrying one (job_id, resume_id) at most one is
\* accepted and resume_job holds at most one row per id; a request changes
\* the store only in the step that commits it, so a request that fails has
\* changed nothing.
C8_OneRequestPerResumeId ==
    /\ [](\A c, d \in Calls :
            (c # d /\ Accepted(c) /\ Accepted(d)) =>
                ResumeJobId(calls[c].job_id, calls[c].resume_id)
                    # ResumeJobId(calls[d].job_id, calls[d].resume_id))
    /\ [](\A r1, r2 \in resume_job : r1.id = r2.id => r1 = r2)
    /\ [][(calls' # calls /\ \A c \in Calls : ~(calls[c].pc = "commit"
                                                /\ Accepted(c)'))
          => UNCHANGED <<queue, completed_job, resume_job>>]_vars

\* two concurrent requests carried the same pair: one was accepted, the
\* other passed the duplicate check and failed on the INSERT
C8_Witness ==
    \E c, d \in Calls :
        /\ c # d
        /\ Accepted(c)
        /\ calls[d].pc = "done"
        /\ calls[d].job_id = calls[c].job_id
        /\ calls[d].resume_id = calls[c].resume_id
        /\ calls[d].result = "duplicate key value violates unique constraint"
        /\ calls[d].approved # calls[c].approved

\* C9: when a rejection commits and the owning flow is in the pending
\* table, the flow's suspend is 0 after the commit.
C9_RejectionZeroesSuspend ==
    [][\A c \in Calls :
         ( /\ calls[c].pc = "commit"
           /\ calls'[c].pc = "done"
           /\ ~calls[c].approved
           /\ calls[c].flow[1].id \in DOMAIN queue' )
         => queue'[calls[c].flow[1].id].suspend = 0]_vars

\* a rejection was accepted that had read suspend = 2 on the waiting flow,
\* and suspend is 0
C9_Witness ==
    \E c \in Calls :
        /\ Accepted(c) /\ ~calls[c].approved
        /\ ReadWhileWaiting(c)
        /\ calls[c].flow[1].suspend = 2
        /\ calls[c].flow[1].id \in DOMAIN queue
        /\ queue[calls[c].flow[1].id].suspend = 0

\* C10: while a flow stays in one WaitingForEvents module, no step
\* increases its suspend counter.
C10_SuspendNeverIncreasesWhileWaiting ==
    [][\A f \in DOMAIN queue \cap DOMAIN queue' :
         ( /\ WaitingOn(queue[f]) # <<>>
           /\ queue'[f].flow_status = queue[f].flow_status )
         => queue'[f].suspend <= queue[f].suspend]_vars

----------------------------------------------------------------------------
(* Properties of the resume capability *)

PassedSignature(c) ==
    calls[c].pc # "idle" /\ calls[c].kind \in {"resume", "cancel"}
    /\ calls[c].result # "Invalid signature"

\* C11: a request that presents the capability issued for (job id, resume
\* id, approver) passes verification only with exactly that job id, resume
\* id and approver.
C11_TamperedCapabilityRejected ==
    \A c \in Calls, a \in IssuedApprovers :
        (PassedSignature(c) /\ calls[c].secret = Issued(1, 0, a))
        => /\ calls[c].job_id = 1
           /\ calls[c].resume_id = 0
           /\ calls[c].approver = a

----------------------------------------------------------------------------
(* Properties of the jobs API *)

IsCancel(c) == calls[c].kind \in {"cancel", "force_cancel"}

C13_GetAfterPushFindsJob ==
    \A c \in Calls :
        (calls[c].pc = "done" /\ calls[c].kind = "get"
            /\ calls[c].seen \in {"pending", "terminal"})
        => calls[c].result # "NotFound"

C15_TrivialCancelNeverTakesClaimedRow ==
    [][\A c \in Calls :
         (calls[c].pc = "commit" /\ calls[c].kind = "cancel_jobs"
             /\ calls'[c].pc # "commit")
         => \A j \in calls[c].trivial_jobs :
               /\ j \in DOMAIN queue
               /\ ~queue[j].running
               /\ j \notin DOMAIN queue']_vars

\* a bulk cancel over two ids took one by the trivial path and left the
\* other, which a worker had claimed, to the cancellation core, which set
\* its canceled flag
C15_Witness ==
    \E c \in Calls :
        /\ calls[c].pc = "done" /\ calls[c].kind = "cancel_jobs"
        /\ Cardinality(calls[c].trivial_jobs) = 1
        /\ \E j \in calls[c].core :
              /\ j \in DOMAIN queue
              /\ queue[j].running /\ queue[j].canceled

\* C16: every cancel request that changed a job, by the single cancel, the
\* forced cancel or the bulk cancel, committed an audit record in the
\* transaction of the change.
C16_EveryCancelAudited ==
    \A c \in Calls :
        (calls[c].kind \in {"cancel", "cancel_jobs"} /\ calls[c].changed)
        => calls[c].audit > 0

----------------------------------------------------------------------------
(* Properties of the flow reaper *)

\* the step is the iteration of handle_zombie_flows over the candidate
Reaped(flow) ==
    /\ reaper.pc = "flows"
    /\ flow \in reaper.flows
    /\ flow \notin reaper'.flows

\* the row of the candidate is pending and not canceled when its iteration
\* runs
StillPending(flow) ==
    flow.id \in DOMAIN queue /\ ~queue[flow.id].canceled

\* outcome of the cheap restart, in the state after the iteration
CheaplyRestarted(id) ==
    /\ id \in DOMAIN queue'
    /\ ~queue'[id].running
    /\ queue'[id].started_at = "null"
    /\ ~queue'[id].canceled
    /\ id \notin DOMAIN completed_job'
    /\ \A k \in DOMAIN concurrency_counter' : id \notin concurrency_counter'[k]

\* C17 as stated: a candidate of the flow reaper whose current module is
\* WaitingForPriorSteps is restarted: its row stays pending with running =
\* false and started_at = null, is not canceled, and holds no concurrency
\* slot.
C17_CurrentModuleWaitingIsRestarted ==
    [][\A flow \in reaper.flows :
         (/\ Reaped(flow) /\ StillPending(flow)
          /\ flow.flow_status # NoStatus
          /\ current_step(flow.flow_status[1]) = <<WaitingForPriorSteps>>)
         => CheaplyRestarted(flow.id)]_vars

\* C17, amended: a candidate of the flow reaper with same_worker = false
\* whose first module is WaitingForPriorSteps, and whose row is still
\* pending and not canceled when its iteration runs, is restarted: the row
\* stays pending with running = false and started_at = null, is not
\* canceled, and holds no concurrency slot.
C17_FirstModuleWaitingIsRestarted ==
    [][\A flow \in reaper.flows :
         (/\ Reaped(flow) /\ StillPending(flow)
          /\ ~flow.same_worker
          /\ flow.flow_status # NoStatus
          /\ modules_get(flow.flow_status[1], 0) = <<WaitingForPriorSteps>>)
         => CheaplyRestarted(flow.id)]_vars

\* a flow with a concurrency key that a worker claimed and left is pending
\* again, not running, with the stale ping the reaper saw, and its slot is
\* free
C17_Witness ==
    \E j \in DOMAIN queue :
        /\ queue[j].job_kind = "flow"
        /\ ~queue[j].running /\ queue[j].started_at = "null"
        /\ queue[j].last_ping = "stale"
        /\ ~queue[j].canceled
        /\ j \in DOMAIN concurrency_key
        /\ j \notin concurrency_counter[concurrency_key[j]]

\* C18: a candidate of the flow reaper whose module at the current step
\* index is not WaitingForPriorSteps, at step 0 or at a later step, is not
\* restarted: when its iteration runs on the pending row, the row leaves
\* the pending table and is terminal, canceled, with a reason containing
\* "hanging in between 2 steps".
C18_HungBetweenStepsIsCanceled ==
    [][\A flow \in reaper.flows :
         (/\ Reaped(flow)
          /\ flow.id \in DOMAIN queue
          /\ flow.flow_status # NoStatus
          /\ current_step(flow.flow_status[1]) # <<WaitingForPriorSteps>>)
         => /\ flow.id \notin DOMAIN queue'
            /\ flow.id \in DOMAIN completed_job'
            /\ completed_job'[flow.id].canceled
            /\ ~completed_job'[flow.id].success
            /\ completed_job'[flow.id].canceled_reason
                  = "hanging in between 2 steps"]_vars

\* a flow with same_worker = false that hung at step 1 with its module in
\* progress has been canceled by the reaper
C18_Witness ==
    \E j \in DOMAIN completed_job :
        /\ completed_job[j].canceled
        /\ completed_job[j].canceled_reason = "hanging in between 2 steps"
        /\ j \in DOMAIN concurrency_key
        /\ completed_job[j].flow_status[1].step = 1
        /\ current_step(completed_job[j].flow_status[1]) = <<InProgress(NoJob)>>

\* C19: the cheap restart resets a running flow row only if, at the moment
\* of the reset, the row is still stale and its first module is still
\* WaitingForPriorSteps: a flow that a worker pinged or advanced after the
\* candidate query is not reset.
C19_ResetOnlyIfStillStale ==
    [][\A flow \in reaper.flows :
         (/\ Reaped(flow)
          /\ flow.id \in DOMAIN queue /\ queue[flow.id].running
          /\ flow.id \in DOMAIN queue' /\ ~queue'[flow.id].running)
         => /\ Stale(queue[flow.id])
            /\ modules_get(queue[flow.id].flow_status[1], 0)
                  = <<WaitingForPriorSteps>>]_vars

----------------------------------------------------------------------------
(* Properties of the script reaper *)

C22_ScriptReaperSurvivesFailure ==
    [][(reaper.pc = "timeouts" /\ reaper'.pc # "timeouts")
         => (reaper.timeouts = {} /\ reaper'.pc # "dead")]_vars

\* C23: while candidates of the pass remain, every step of the flow
\* reaper, a failed restart or cancel included, stays in the loop over the
\* candidates: the loop is left only for the parallel-branch check, when
\* every candidate has been handled.
C23_FlowReaperIsolatesFailure ==
    [][(reaper.pc = "flows" /\ reaper.flows # {} /\ reaper' # reaper)
         => reaper'.pc = "flows"]_vars

\* C24: every pending row whose last_ping is not null is running; a row
\* that the reaper restarted has last_ping null.
C24_PingOnlyWhileRunning ==
    \A j \in DOMAIN queue :
        queue[j].last_ping # "null" => queue[j].running

\* C25: no step of the reaper resets running to false on a pending row
\* that has canceled = true.
C25_CanceledNeverRestarted ==
    [][\A j \in DOMAIN queue :
         (/\ ReaperStep
          /\ queue[j].canceled /\ queue[j].running
          /\ j \in DOMAIN queue')
         => queue'[j].running]_vars

\* C26: a step of the reaper that takes a job id out of a concurrency
\* counter also changes the pending row of that job.
C26_CounterFollowsRowTransition ==
    [][\A j \in JobIds, k \in DOMAIN concurrency_counter :
         (/\ ReaperStep
          /\ j \in concurrency_counter[k]
          /\ j \notin concurrency_counter'[k])
         => /\ j \in DOMAIN queue
            /\ (j \notin DOMAIN queue' \/ queue'[j] # queue[j])]_vars

----------------------------------------------------------------------------
(* Properties of the result wait *)

\* C27: every call of run_wait_result_internal that keeps being run comes
\* to an end: it returns a result, fails, or is dropped by its caller.
C27_WaitTerminates ==
    <>(\A c \in DOMAIN calls : ~WaitInFlight(c))

\* C28: a call of run_wait_result_internal that has returned a result has
\* disarmed its guard, and the guard has spawned no cancel of the job.
C28_ResultDisarmsGuard ==
    \A c \in DOMAIN calls :
        (calls[c].kind = "wait" /\ calls[c].pc = "returned")
        => /\ calls[c].result # <<>>
           /\ calls[c].g = "done"
           /\ calls[c].spawned = 0
           /\ calls[c].cancel_f = "none"

\* a call that slept at least once has returned the result of the job,
\* which a worker completed meanwhile
C28_Witness ==
    \E c \in DOMAIN calls :
        /\ calls[c].kind = "wait" /\ calls[c].pc = "returned"
        /\ calls[c].slept > 0
        /\ calls[c].job_id \in DOMAIN completed_job
        /\ calls[c].success

\* C29: a call of the result wait that ended without a result, by a
\* disconnect of the caller, by the timeout or by a store error, has
\* scheduled exactly one cancel of the awaited job.
C29_ExitWithoutResultCancels ==
    \A c \in DOMAIN calls :
        (calls[c].kind = "wait" /\ calls[c].pc \in {"failed", "dropped"})
        => calls[c].spawned = 1

----------------------------------------------------------------------------
(* Properties of the response of run_wait_result *)

\* the result carries the field
Carries(field) == field # <<>>

\* C30: the status of the response is 200 or 500 by success when the
\* result carries no override field; the explicit status code when the
\* result carries a valid one; 500, 200 or 204 by success and by the
\* presence of a result value when it carries other override fields only;
\* and the response is an error when the explicit status code is invalid.
\* Checked for results whose headers and content type are well formed.
C30_StatusOfResponse ==
    \A c \in DOMAIN calls :
        (/\ calls[c].kind = "response" /\ calls[c].pc = "responded"
         /\ calls[c].json.is_object
         /\ calls[c].json.windmill_headers # <<"bad">>
         /\ calls[c].json.windmill_content_type # <<"bad">>)
        => LET r == calls[c].json
               success == calls[c].success
               response == calls[c].response
           IN IF /\ ~Carries(r.windmill_status_code)
                 /\ ~Carries(r.windmill_content_type)
                 /\ ~Carries(r.windmill_headers)
              THEN response = Response(IF success THEN 200 ELSE 500)
              ELSE IF Carries(r.windmill_status_code)
              THEN IF r.windmill_status_code[1] \in 100 .. 999
                   THEN response = Response(r.windmill_status_code[1])
                   ELSE response.error # ""
              ELSE response = Response(IF ~success THEN 500
                                       ELSE IF Carries(r.result) THEN 200
                                       ELSE 204)

----------------------------------------------------------------------------
(* Properties of the push requests *)

\* the effective tag is set, non-empty, and not permitted to the caller
TagNotPermitted(call) ==
    /\ call.tag # << >>
    /\ call.tag[1] # ""
    /\ \/ /\ call.tag[1] \notin CUSTOM_TAGS_PER_WORKSPACE.global
          /\ ~(/\ call.tag[1] \in DOMAIN CUSTOM_TAGS_PER_WORKSPACE.per_workspace
               /\ call.w_id \in
                    CUSTOM_TAGS_PER_WORKSPACE.per_workspace[call.tag[1]])
       \/ /\ call.scope_tags # << >>
          /\ call.tag[1] \notin call.scope_tags[1]

\* C31: a push request whose effective tag is non-empty and is not a custom
\* tag permitted to the workspace, or is outside the caller's scope tags, ends
\* in BadRequest and leaves the pending table as it was.
C31_UnpermittedTagRejected ==
    [][\A c \in DOMAIN calls :
          (/\ calls[c].pc = "start" /\ calls'[c].pc = "done"
           /\ TagNotPermitted(calls'[c]))
              => (calls'[c].result = "BadRequest" /\ queue' = queue)]_vars

----------------------------------------------------------------------------
(* Properties of the approval policy *)

\* the approval conditions of the flow, in whichever table its row is
Policy ==
    IF TheFlow \in DOMAIN queue
    THEN queue[TheFlow].flow_status[1].approval_conditions
    ELSE completed_job[TheFlow].flow_status[1].approval_conditions

\* request c is a resume or a cancel_suspended call
ByCapability(c) == calls[c].kind \in {"resume", "cancel"}

\* request c has passed the approval policy
Admitted(c) ==
    \/ calls[c].pc \in {"exists", "insert", "update", "commit"}
    \/ /\ calls[c].pc = "done"
       /\ calls[c].result \in
             {"201", "resume request already sent",
              "duplicate key value violates unique constraint"}

\* no resume_job row comes from request c
NothingInserted(c) ==
    \A r \in resume_job :
        r.id # ResumeJobId(calls[c].job_id, calls[c].resume_id)

\* C32: while the flow's approval conditions require an authenticated
\* approver, a resume or cancel_suspended call of an anonymous caller never
\* passes the policy check, whatever its capability: it inserts no resume_job
\* row and writes no suspend.
C32_AnonymousNeverAdmitted ==
    \A c \in Calls :
        (/\ ByCapability(c)
         /\ calls[c].authed = <<>>
         /\ Policy # <<>>
         /\ Policy[1].user_auth_required)
            => /\ ~Admitted(c)
               /\ NothingInserted(c)
               /\ calls[c].write = <<>>

\* an anonymous caller with a valid capability has been refused by the
\* enterprise build
C32_Witness ==
    \E c \in Calls :
        /\ ByCapability(c)
        /\ calls[c].authed = <<>>
        /\ Policy # <<>> /\ Policy[1].user_auth_required
        /\ verify_suspended_secret("w1", calls[c].job_id, calls[c].resume_id,
                                   calls[c].approver, calls[c].secret)
        /\ calls[c].pc = "done"
        /\ calls[c].result = "NotAuthorized"

\* the caller of request c is the user who triggered the flow while
\* self-approval is disabled
SelfApproval(c) ==
    /\ Policy # <<>> /\ Policy[1].self_approval_disabled
    /\ calls[c].authed # <<>>
    /\ calls[c].authed[1].email = TriggerEmail

\* the caller of request c is in none of the required groups
OutsideGroups(c) ==
    /\ Policy # <<>> /\ Policy[1].user_groups_required # {}
    /\ \/ calls[c].authed = <<>>
       \/ calls[c].authed[1].groups \cap Policy[1].user_groups_required = {}

\* C33 as stated: with self-approval disabled every resume or
\* cancel_suspended call of the flow's trigger user is rejected, and with
\* required groups every call of a caller in none of them, for every caller
\* and whatever the other approval conditions are.
C33_PolicyForEveryCaller ==
    \A c \in Calls :
        (ByCapability(c) /\ (SelfApproval(c) \/ OutsideGroups(c)))
            => ~Admitted(c)

\* C33: when the approval conditions require an authenticated approver, a
\* resume or cancel_suspended call of a caller who is not an admin is
\* rejected if self-approval is disabled and the caller's email is the flow's
\* trigger email, and is rejected if groups are required and the caller is in
\* none of them; it inserts no resume_job row.
C33_PolicyForNonAdmins ==
    \A c \in Calls :
        (/\ ByCapability(c)
         /\ Policy # <<>> /\ Policy[1].user_auth_required
         /\ calls[c].authed # <<>> => ~calls[c].authed[1].is_admin
         /\ SelfApproval(c) \/ OutsideGroups(c))
            => (~Admitted(c) /\ NothingInserted(c))

\* the trigger user, logged in and in the required group, has been refused
\* because self-approval is disabled; another request of a user outside the
\* required groups has been refused as well
C33_Witness ==
    \E c, d \in Calls :
        /\ ByCapability(c) /\ ByCapability(d)
        /\ Policy # <<>> /\ Policy[1].user_auth_required
        /\ SelfApproval(c) /\ ~OutsideGroups(c)
        /\ ~calls[c].authed[1].is_admin
        /\ calls[c].pc = "done" /\ calls[c].result = "PermissionDenied"
        /\ OutsideGroups(d) /\ ~SelfApproval(d)
        /\ calls[d].authed # <<>> /\ ~calls[d].authed[1].is_admin
        /\ calls[d].pc = "done" /\ calls[d].result = "PermissionDenied"

----------------------------------------------------------------------------
(* Properties of the monitor task *)

\* C34: unless the task receives the killpill, it runs monitor_db again and
\* again, however the notifications arrive.
C34_MaintenancePassRecurs ==
    \A c \in {1} :
        ([]<>(calls[c].pc = "monitor_db")) \/ <>(calls[c].pc = "exited")

----------------------------------------------------------------------------
(* Properties of the flow reaper on waiting flows *)

\* a flow row that is waiting, canceled or not running
LegitimatelyWaiting(row) ==
    \/ row.suspend > 0
    \/ row.suspend_until # "null"
    \/ row.scheduled_for # "past"
    \/ row.canceled
    \/ ~row.running

\* C35: an iteration of the first loop of handle_zombie_flows leaves the row
\* of its flow as it is when that row has suspend > 0, or suspend_until set,
\* or scheduled_for in the future, or is canceled, or is not running.
C35_WaitingFlowLeftUnchanged ==
    [][\A flow \in reaper.flows :
          (/\ reaper.pc = "flows"
           /\ reaper'.flows = reaper.flows \ {flow}
           /\ flow.id \in DOMAIN queue
           /\ LegitimatelyWaiting(queue[flow.id]))
              => (/\ flow.id \in DOMAIN queue'
                  /\ queue'[flow.id] = queue[flow.id])]_vars

----------------------------------------------------------------------------
(* Properties of approvals that do not concern the current wait *)

\* the resume_job row of request c
ResumeJobOf(c) ==
    [id |-> ResumeJobId(calls[c].job_id, calls[c].resume_id),
     resume_id |-> calls[c].resume_id, job |-> calls[c].job_id,
     flow |-> calls[c].flow[1].id, approved |-> calls[c].approved]

\* C36: an approval of job J that found the owning flow not in
\* WaitingForEvents on J (not yet waiting, or waiting on another job), or
\* found suspend = 0, commits its resume_job row and changes the suspend of
\* no flow.
C36_IrrelevantApprovalOnlyRecorded ==
    [][\A c \in Calls :
          (/\ calls[c].pc = "commit" /\ calls'[c].pc = "done"
           /\ calls[c].approved
           /\ ~ReadWhileWaiting(c) \/ calls[c].flow[1].suspend = 0)
              => /\ ResumeJobOf(c) \in resume_job'
                 /\ \A f \in DOMAIN queue :
                       /\ f \in DOMAIN queue'
                       /\ queue'[f].suspend = queue[f].suspend]_vars

\* an approval of the running step job was accepted before the flow began to
\* wait: its row is recorded and the flow, which now waits on that job, has
\* the suspend the orchestrator computed
C36_Witness ==
    \E c \in Calls :
        /\ Accepted(c) /\ calls[c].approved /\ calls[c].kind = "resume"
        /\ ~ReadWhileWaiting(c)
        /\ ResumeJobOf(c) \in resume_job
        /\ TheFlow \in DOMAIN queue
        /\ WaitingOn(queue[TheFlow]) # <<>>
        /\ WaitingOn(queue[TheFlow])[1].job = calls[c].job_id
        /\ queue[TheFlow].suspend = 1

----------------------------------------------------------------------------
(* Properties of the reaper's dispatch on the job kind *)

\* row j is a zombie the flow check has no other reason to skip
StaleRunning(j) ==
    /\ queue[j].running /\ Stale(queue[j])
    /\ ~queue[j].canceled
    /\ queue[j].suspend = 0 /\ queue[j].suspend_until = "null"
    /\ queue[j].scheduled_for = "past"

\* C37: every job kind that the script-zombie queries exclude as flow-like is
\* taken by the flow-zombie candidate query, and no kind is taken by both
\* checks: a stale running job of an excluded kind is a candidate of the flow
\* check, and the jobs the script check restarts or times out are of kinds the
\* flow check does not take.
C37_EveryKindInExactlyOneCheck ==
    /\ [][(reaper.pc = "timeouts" /\ reaper'.pc = "flows")
            => \A j \in DOMAIN queue :
                  (StaleRunning(j) /\ queue[j].job_kind \in FlowLikeKinds)
                     => \E flow \in reaper'.flows : flow.id = j]_vars
    /\ [][(reaper.pc = "timeout_query" /\ reaper'.pc = "timeouts")
            => \A j \in reaper'.timeouts :
                  queue[j].job_kind \notin FlowReapedKinds]_vars
    /\ [][(reaper.pc = "idle" /\ reaper'.pc = "timeout_query")
            => \A j \in DOMAIN queue :
                  queue'[j] # queue[j]
                     => queue[j].job_kind \notin FlowReapedKinds]_vars

----------------------------------------------------------------------------
(* Properties of rejected resume requests *)

\* C38: a step of a resume or cancel_suspended call other than its
\* accepting commit, and so every step that rejects the call (invalid
\* signature, parent flow not found, approval policy, duplicate resume id,
\* store error before the commit), adds no resume_job row, changes no suspend
\* and writes no audit record.
C38_RejectionChangesNothing ==
    [][\A c \in Calls :
          (/\ calls'[c] # calls[c]
           /\ calls'[c].kind \in {"resume", "cancel"}
           /\ ~(calls'[c].pc = "done" /\ calls'[c].result = "201"))
              => /\ resume_job' = resume_job
                 /\ queue' = queue
                 /\ calls'[c].audit = 0]_vars

\* a rejection that had inserted its row and written suspend in its
\* transaction was stopped by a store error and rolled back: the flow still
\* waits with the suspend the request had read
C38_Witness ==
    \E c \in Calls :
        /\ ByCapability(c)
        /\ calls[c].pc = "done" /\ calls[c].result = "InternalErr"
        /\ calls[c].write # <<>>
        /\ NothingInserted(c)
        /\ TheFlow \in DOMAIN queue
        /\ queue[TheFlow].suspend = calls[c].flow[1].suspend
        /\ queue[TheFlow].suspend > 0
        /\ calls[c].audit = 0

----------------------------------------------------------------------------
(* Properties of the result wait on a terminal job *)

\* the awaited job of call c has a row in the terminal table
IsTerminal(c) ==
    /\ calls[c].job_id \in DOMAIN completed_job
    /\ completed_job[calls[c].job_id].workspace_id = calls[c].w_id

\* C39: a poll of run_wait_result_internal whose lookup succeeds while the
\* awaited job has a row in the terminal table returns and disarms the
\* guard, whatever the result stored in the row: the call does not go on to
\* sleep or to the timeout, and schedules no cancel.
C39_TerminalJobEndsWait ==
    [][\A c \in DOMAIN calls :
          (/\ calls[c].kind = "wait"
           /\ calls[c].pc = "poll"
           /\ calls'[c].pc \in {"returned", "sleep", "failed"}
           /\ calls'[c].error # "store"
           /\ IsTerminal(c))
              => (/\ calls'[c].pc = "returned"
                  /\ calls'[c].g = "done"
                  /\ calls'[c].spawned = 0)]_vars

====
